---- MODULE Spec2Model ----
(***************************************************************************)
(* mock-harbor: the server manager (internal/server), its hot reloader     *)
(* (internal/hotreload), the configuration watcher (package watcher), the  *)
(* mock handler (internal/handler) and the start-up in main, as one state  *)
(* machine.                                                                *)
(*                                                                         *)
(* Files are not state: every load reads the configuration tree as the     *)
(* operator's editor left it, so each load draws its file's content from   *)
(* the set of contents below.  A MockServer is an object with identity     *)
(* (rt[r]); the manager's three views (Servers, serviceMap, portMap) hold  *)
(* identities, as the Go program holds pointers.  An object that nothing   *)
(* refers to any more is collected, and the objects left are numbered in   *)
(* the order they were built in.                                           *)
(***************************************************************************)
EXTENDS Integers, Sequences, FiniteSets, TLC

(* ------------------------------ bounds -------------------------------- *)
MaxRuntimes == 4      \* MockServer objects alive at one time
MaxEvents == 3        \* file events the watcher sees in one behaviour
MaxTime == 5          \* the last tick of the clock
MaxDepth == 5         \* components of the longest path that is classified

(* --------------------------- configuration ---------------------------- *)
ServiceIds == {"A", "B"}
Usecases == {"default", "alt"}
PortValues == {80, 8081, 8082}

\* config.ServiceReference
Ref(n, u) == [Name |-> n, Usecase |-> u]

\* Services lists: lists of one or two services that ValidateGlobalConfig
\* accepts, and one list for each way it refuses a list.
ServiceLists ==
    { <<Ref("A", "default")>>, <<Ref("B", "alt")>>,
      <<Ref("A", "default"), Ref("B", "default")>>, <<Ref("A", "alt"), Ref("B", "default")>>,
      <<Ref("A", "alt"), Ref("B", "alt")>>, <<Ref("B", "default"), Ref("A", "alt")>> }
    \cup { <<>>, <<Ref("", "default")>>, <<Ref("A", "")>>,
           <<Ref("A", "default"), Ref("A", "alt")>> }

\* What LoadGlobalConfig can find at <root>/config.yaml ("missing": the file
\* cannot be read or parsed).
GlobalFiles ==
    {[kind |-> "missing", Services |-> <<>>]}
    \cup {[kind |-> "ok", Services |-> s] : s \in ServiceLists}

\* What LoadServiceConfig can find at <root>/<service>/config.yaml.  The name
\* field is left out: LoadServiceConfig defaults it to the directory name and
\* NewMockServer never reads it.
ServiceFiles ==
    {[kind |-> "missing", Port |-> 0]}
    \cup {[kind |-> "ok", Port |-> p] : p \in PortValues}

\* config.MockConfig, reduced to the fields the validator reads.
Mock(p, m, s) == [Path |-> p, Method |-> m, StatusCode |-> s]
M1 == Mock("/a", "GET", 200)
\* Mock lists: one that ValidateMockConfigs accepts, the empty one, one with
\* a duplicate and one with a bad method and status code.
MockLists ==
    { <<M1>>, <<>>, <<M1, Mock("/a", "get", 500)>>, <<Mock("/a", "FETCH", 99)>> }

\* What LoadMockConfigs can find at <root>/<service>/usecases/<usecase>/all.json.
MockFiles ==
    {[kind |-> "missing", Mocks |-> <<>>]}
    \cup {[kind |-> "ok", Mocks |-> l] : l \in MockLists}

(* ----------------------------- config loads --------------------------- *)
\* "" stands for a nil error.
LoadGlobalConfig(f) == IF f.kind = "ok" THEN "" ELSE "load"

LoadServiceConfig(f) == IF f.kind = "ok" THEN "" ELSE "load"

LoadMockConfigs(f) ==
    IF f.kind # "ok" THEN "load"
    ELSE IF Len(f.Mocks) = 0 THEN "load"
    ELSE ""

(* ------------------------------ validation ---------------------------- *)
\* strings.ToUpper on the method strings of the model.
ToUpper(m) ==
    CASE m = "get" -> "GET"
      [] m = "Get" -> "GET"
      [] m = "post" -> "POST"
      [] OTHER -> m

validMethods == {"GET", "POST", "PUT", "DELETE", "PATCH", "HEAD", "OPTIONS"}

\* ValidateGlobalConfig without its check for duplicate service names.
ValidateGlobalConfigNoDuplicates(services) ==
    /\ Len(services) # 0
    /\ \A i \in 1..Len(services) :
        /\ services[i].Name # ""
        /\ services[i].Usecase # ""

\* ValidationResult.IsValid of ValidateGlobalConfig.
ValidateGlobalConfig(services) ==
    /\ Len(services) # 0
    /\ \A i \in 1..Len(services) :
        /\ services[i].Name # ""
        /\ services[i].Usecase # ""
        /\ \A j \in 1..(i - 1) : services[j].Name # services[i].Name

\* ValidateServiceConfig without its check of the port range.
ValidateServiceConfigAnyPort(port) == ~(port <= 0)

\* ValidationResult.IsValid of ValidateServiceConfig.
ValidateServiceConfig(port) ==
    /\ ~(port <= 0)
    /\ ~(port < 1024 \/ port > 65535)

\* ValidationResult.IsValid of ValidateMockConfigs.
ValidateMockConfigs(mocks) ==
    /\ Len(mocks) # 0
    /\ \A i \in 1..Len(mocks) :
        /\ mocks[i].Path # ""
        /\ mocks[i].Method # ""
        /\ ToUpper(mocks[i].Method) \in validMethods
        /\ \A j \in 1..(i - 1) :
              ~(ToUpper(mocks[j].Method) = ToUpper(mocks[i].Method)
                /\ mocks[j].Path = mocks[i].Path)
        /\ ~(mocks[i].StatusCode < 100 \/ mocks[i].StatusCode > 599)

(* ------------------------------- handler ------------------------------ *)
\* A decoded JSON value (interface{}): an object is a function from its keys
\* to values; every other value (number, string, bool, null, array) is an
\* atom that reflect.DeepEqual compares as a whole.
Val(s) == <<"val", s>>
Obj(f) == <<"obj", f>>

\* A nil map[string]interface{}.
Nil == <<"nil", "">>

\* The object {}.
EmptyObject == [k \in {} |-> Nil]

\* JSON objects, as request bodies and as the bodies of mocks.
Objects ==
    { [a |-> Val("1")], [a |-> Val("1"), b |-> Val("2")], [b |-> Val("2")],
      [a |-> Val("2")], [a |-> Val("[1]")],
      [a |-> Obj([x |-> Val("1")])], [a |-> Obj([x |-> Val("1"), y |-> Val("2")])],
      [a |-> Obj([x |-> Val("2")])], [a |-> Obj(EmptyObject)], EmptyObject }

\* reflect.DeepEqual on two decoded JSON values.
DeepEqual(u, v) == u = v

\* matchesMockBody without the recursion into nested objects.
matchesMockBodyFlat(received, expected) ==
    \A key \in DOMAIN expected :
        /\ key \in DOMAIN received
        /\ DeepEqual(received[key], expected[key])

\* matchesMockBody: the loop over the keys of expected returns false at the
\* first key that is missing or whose value does not match.
RECURSIVE matchesMockBody(_, _)
matchesMockBody(received, expected) ==
    \A key \in DOMAIN expected :
        /\ key \in DOMAIN received
        /\ IF expected[key][1] = "obj"
           THEN /\ received[key][1] = "obj"
                /\ matchesMockBody(received[key][2], expected[key][2])
           ELSE DeepEqual(received[key], expected[key])

\* config.MockConfig: Request.Path, Request.Method, Request.Body and
\* Response.StatusCode, Response.Headers, Response.Body, in one record.
MockConfig(path, method, body, status, headers, respBody) ==
    [Path |-> path, Method |-> method, Body |-> body,
     StatusCode |-> status, Headers |-> headers, RespBody |-> respBody]

\* The mocks of the handler's lists.
HandlerMocks ==
    { MockConfig("/a", "GET", Nil, 200, {<<"x-id", "1">>}, Obj([a |-> Val("1")])),
      MockConfig("/a", "get", Nil, 201, {}, Obj([b |-> Val("2")])),
      MockConfig("/a", "Get", Nil, 202, {}, Nil),
      MockConfig("/a", "POST", Obj([a |-> Val("1")]), 203, {<<"Content-Type", "json">>}, Nil),
      MockConfig("/b", "POST", Obj([a |-> Obj([x |-> Val("1")])]), 500, {}, Obj(EmptyObject)),
      MockConfig("/b", "PUT", Obj(EmptyObject), 204, {}, Nil) }

\* The lists of one or two of these mocks that ValidateMockConfigs accepts: a
\* MockHandler is built from validated lists only.
HandlerMockLists ==
    {l \in {<<m>> : m \in HandlerMocks} \cup {<<m, n>> : m \in HandlerMocks, n \in HandlerMocks} :
        ValidateMockConfigs(l)}

\* The body of a request, as sent: a JSON object, the JSON null, another JSON
\* value, or bytes that are no JSON (an empty body is one).
RequestBodies ==
    {Obj(o) : o \in Objects} \cup {<<"null", "">>, Val("[1]"), <<"raw", "">>}

\* http.Request: r.Method, r.URL.Path and the bytes of r.Body.
Requests ==
    [Method : {"GET", "get", "POST", "PUT"}, Path : {"/a", "/b", "/A"}, Body : RequestBodies]

\* json.Unmarshal(body, &requestBody) of findMatchingMock: the error, and
\* the map it leaves (null decodes to a nil map without error).
UnmarshalFails(body) == body[1] \notin {"obj", "null"}

Unmarshal(body) == IF body[1] = "obj" THEN body[2] ELSE EmptyObject

\* findMatchingMock, line 75
MatchesEndpoint(mock, r) == r.Path = mock.Path /\ r.Method = mock.Method

\* findMatchingMock, lines 75-99: the mock is returned for the request.
Matches(mock, r) ==
    /\ MatchesEndpoint(mock, r)
    /\ mock.Body # Nil =>
          /\ ~UnmarshalFails(r.Body)
          /\ matchesMockBody(Unmarshal(r.Body), mock.Body[2])

\* A findMatchingMock that looks at the first mock only.
findMatchingMockHead(mocks, r) ==
    IF Len(mocks) > 0 /\ Matches(mocks[1], r) THEN 1 ELSE 0

\* findMatchingMock: the index of the first mock that matches (0: found is false).
findMatchingMock(mocks, r) ==
    IF \E i \in 1..Len(mocks) : Matches(mocks[i], r)
    THEN CHOOSE i \in 1..Len(mocks) :
            Matches(mocks[i], r) /\ \A j \in 1..(i - 1) : ~Matches(mocks[j], r)
    ELSE 0

\* No request, and nothing written.
NoRequest == [Method |-> "", Path |-> "", Body |-> <<"raw", "">>]

NoResponse ==
    [StatusCode |-> 0, Headers |-> {}, Body |-> <<"text", "">>, found |-> 0, slept |-> 0]

\* config.DelayConfig
DelayConfig(enabled, fixed, min, max) ==
    [Enabled |-> enabled, Fixed |-> fixed, Min |-> min, Max |-> max]

\* The delay configurations of a service config; the program validates none
\* of these fields.
DelayConfigs ==
    { DelayConfig(FALSE, 0, 0, 0), DelayConfig(FALSE, 500, 100, 102),
      DelayConfig(TRUE, 500, 0, 0), DelayConfig(TRUE, 500, 100, 102),
      DelayConfig(TRUE, 0, 0, 0), DelayConfig(TRUE, 0, 100, 100),
      DelayConfig(TRUE, 0, 100, 102), DelayConfig(TRUE, 0, 0, 2),
      DelayConfig(TRUE, 0, 102, 100), DelayConfig(TRUE, 0, -1, 2),
      DelayConfig(TRUE, -5, 100, 102), DelayConfig(TRUE, -5, 2, 0) }

\* calculateDelay: the values it can return, in milliseconds (rand.Intn(n)
\* returns any of 0..n-1).  The handler's DelayConfig is never nil: main and
\* ReloadService give NewMockServer a service config.
calculateDelay(d) ==
    IF ~d.Enabled THEN {0}
    ELSE IF d.Fixed > 0 THEN {d.Fixed}
    ELSE IF d.Min >= 0 /\ d.Max > d.Min
    THEN {d.Min + k : k \in 0..(d.Max - d.Min + 1 - 1)}
    ELSE {0}

\* NewMockHandler
NewMockHandler(mocks, delayConfig) == [Mocks |-> mocks, DelayConfig |-> delayConfig]

NoHandler == NewMockHandler(<<>>, DelayConfig(FALSE, 0, 0, 0))

\* http.Header.Set: the key in its canonical form.
CanonicalHeaderKey(k) ==
    CASE k = "x-id" -> "X-Id"
      [] OTHER -> k

\* json.Marshal of a response body.
Marshal(v) == <<"json", v>>

\* What ServeHTTP writes: the status code, the headers it set, the body bytes,
\* and, as history, the index of the mock it found and the time it slept.
NotFound ==
    [StatusCode |-> 404, Headers |-> {}, Body |-> <<"text", "No matching mock found">>,
     found |-> 0, slept |-> 0]

\* ServeHTTP, lines 40-68, for the mock findMatchingMock returned and the
\* delay calculateDelay returned.
Respond(mocks, i, delay) ==
    [StatusCode |-> mocks[i].StatusCode,
     Headers |-> {<<CanonicalHeaderKey(h[1]), h[2]>> : h \in mocks[i].Headers},
     Body |-> IF mocks[i].RespBody # Nil THEN Marshal(mocks[i].RespBody) ELSE <<"text", "">>,
     found |-> i, slept |-> delay]

(* ------------------------------- state -------------------------------- *)
VARIABLES
    rt,           \* the MockServer objects, by identity
    Servers,      \* ServerManager.Servers: a list of MockServer identities
    serviceMap,   \* ServerManager.serviceMap: service name -> identity (0: no entry)
    portMap,      \* ServerManager.portMap: the ports whose entry is present
    th,           \* every goroutine that runs manager code: its position and locals
    lastGlobal,   \* history: service -> usecase, as the last global config that
                  \* loaded and validated lists them ("": not listed)
    clock,        \* the time, in ticks
    recentEvents, \* ConfigWatcher.recentEvents: path -> time of its latest event
    timers,       \* the time.AfterFunc timers that have not fired yet
    arrivals,     \* history: the events debounceEvent was called with, in order
    calls,        \* history: the invocations of ConfigWatcher.callback
    done,         \* ConfigWatcher.done is closed
    mutex,        \* ServerManager.mutex: the goroutine that holds it ("": none)
    handler,      \* a MockHandler: its Mocks and DelayConfig
    request,      \* the request its ServeHTTP was last called with
    response,     \* what that call wrote
    srv,          \* the http.Server of one MockServer and its connections
    stopCall      \* a call of MockServer.Stop on it

fleetVars == <<rt, Servers, serviceMap, portMap>>
watcherVars == <<clock, recentEvents, timers, arrivals, calls, done>>
servingVars == <<handler, request, response>>
shutdownVars == <<srv, stopCall>>
\* What no step of the fleet's goroutines changes.
otherVars == <<watcherVars, mutex, servingVars, shutdownVars>>

RtIds == 1..MaxRuntimes
NoRt == 0

\* A MockServer (NoServer: no object has this identity).  usecase is not a field of the Go struct: it names the
\* usecase directory the Mocks were loaded from.  inShutdown and listening are
\* the state of its http.Server; startPc is the position of the goroutine
\* that runs its Start ("none": no such goroutine yet).
NoServer ==
    [ServiceName |-> "", Port |-> 0, Mocks |-> <<>>, usecase |-> "",
     inShutdown |-> FALSE, listening |-> FALSE, startPc |-> "none", startErr |-> ""]

\* NewMockServer
NewMockServer(serviceName, port, mocks, usecase) ==
    [ServiceName |-> serviceName, Port |-> port, Mocks |-> mocks, usecase |-> usecase,
     inShutdown |-> FALSE, listening |-> FALSE, startPc |-> "none", startErr |-> ""]

\* The runtime whose listener holds port p (0: the port is free).
PortHolder(rts, p) ==
    IF \E r \in RtIds : rts[r].listening /\ rts[r].Port = p
    THEN CHOOSE r \in RtIds : rts[r].listening /\ rts[r].Port = p
    ELSE NoRt

\* MockServer.Start, run by its goroutine: http.Server.ListenAndServe returns
\* ErrServerClosed after Shutdown, fails when the port is taken, and otherwise
\* binds the port and serves until Shutdown.
Start(rts, r) ==
    IF rts[r].inShutdown
    THEN [rts EXCEPT ![r].startPc = "done", ![r].startErr = "ErrServerClosed"]
    ELSE IF PortHolder(rts, rts[r].Port) # NoRt
    THEN [rts EXCEPT ![r].startPc = "done", ![r].startErr = "bind"]
    ELSE [rts EXCEPT ![r].startPc = "serving", ![r].listening = TRUE]

\* A Stop that leaves the listener open.
StopWithoutClose(rts, r) == [rts EXCEPT ![r].inShutdown = TRUE]

\* MockServer.Stop: http.Server.Shutdown closes the listener at once and makes
\* every later ListenAndServe return ErrServerClosed.  The Start goroutine of
\* the server returns with it: now if it is serving, and without a bind
\* whenever it runs if it has not called ListenAndServe yet.
Stop(rts, r) ==
    [rts EXCEPT ![r].inShutdown = TRUE,
                ![r].listening = FALSE,
                ![r].startPc = IF @ \in {"spawned", "serving"} THEN "done" ELSE @,
                ![r].startErr = IF rts[r].startPc \in {"spawned", "serving"}
                                THEN "ErrServerClosed" ELSE @]

\* The go statement in front of a Start call.
GoStart(rts, r) == [rts EXCEPT ![r].startPc = "spawned"]

\* ReloadService, ReloadGlobalConfig and StopAll give Stop a context of
\* 5 seconds.
ShutdownTimeout == 5

MaxConns == 2         \* connections to the server
MaxDuration == 7      \* the longest a handler takes to answer, in seconds

ConnIds == 1..MaxConns

\* A connection is closed, open and idle, or open with a request that takes
\* so many more seconds.
Closed == -1
Idle == 0

NoHttpServer ==
    [listening |-> FALSE, inShutdown |-> FALSE, conns |-> [c \in ConnIds |-> Closed]]

NoStopCall == [pc |-> "none", elapsed |-> 0, err |-> ""]

\* MockServer.Start has bound the port and serves.
Serving == [NoHttpServer EXCEPT !.listening = TRUE]

(* ---------------------------- ServerManager --------------------------- *)
\* The list without its first element whose ServiceName is name.
RECURSIVE RemoveFirstNamed(_, _, _)
RemoveFirstNamed(rts, list, name) ==
    IF list = <<>> THEN <<>>
    ELSE IF rts[Head(list)].ServiceName = name THEN Tail(list)
    ELSE <<Head(list)>> \o RemoveFirstNamed(rts, Tail(list), name)

\* isPortInUse: some other service's entry in serviceMap has this port.
isPortInUse(rts, smap, port, serviceName) ==
    \E name \in ServiceIds :
        smap[name] # NoRt /\ rts[smap[name]].Port = port /\ name # serviceName

\* GetServerByService (0: exists is false)
GetServerByService(smap, serviceName) == smap[serviceName]

\* AddServer: the three views after it, for the server r described by rts[r].
AddServerServers(rts, list, smap, r) ==
    IF smap[rts[r].ServiceName] # NoRt
    THEN Append(RemoveFirstNamed(rts, list, rts[r].ServiceName), r)
    ELSE Append(list, r)

\* An AddServer that refuses a server whose port another service has.
AddServerServiceMapRefusing(rts, smap, r) ==
    IF isPortInUse(rts, smap, rts[r].Port, rts[r].ServiceName) THEN smap
    ELSE [smap EXCEPT ![rts[r].ServiceName] = r]

AddServerServiceMap(rts, smap, r) == [smap EXCEPT ![rts[r].ServiceName] = r]

AddServerPortMap(rts, smap, pmap, r) ==
    IF smap[rts[r].ServiceName] # NoRt
    THEN (pmap \ {rts[smap[rts[r].ServiceName]].Port}) \cup {rts[r].Port}
    ELSE pmap \cup {rts[r].Port}

(* ------------------------------ watcher: events ----------------------- *)
\* Paths are relative to the config root, as lists of components.  These pass
\* the filters of processEvents (no dotfile, extension yaml, yml or json).
WatchPaths ==
    { <<"config.yaml">>, <<"other.yaml">>,
      <<"A", "config.yaml">>, <<"B", "config.yml">>, <<"A", "notes.json">> }
    \cup {<<s, "usecases", u, "all.json">> : s \in ServiceIds, u \in Usecases}

\* The paths classifyConfigFile is exercised on: a file of one of these names
\* below up to MaxDepth - 1 directories of these names.
ClassifyDirs == {"A", "usecases", "alt"}

ClassifyFiles == {"config.yaml", "config.yml", "all.json", "other.yaml"}

ClassifyPaths ==
    UNION {{d \o <<f>> : d \in [1..k -> ClassifyDirs], f \in ClassifyFiles} :
              k \in 0..(MaxDepth - 1)}

\* strings.HasSuffix(name, ".json") on the file names of the model.
HasSuffixJson(name) == name \in {"all.json", "notes.json"}

IsConfigYaml(name) == name = "config.yaml" \/ name = "config.yml"

\* classifyConfigFile: <<serviceID, configType>>
classifyConfigFile(parts) ==
    IF Len(parts) = 1 /\ IsConfigYaml(parts[1]) THEN <<"", "global">>
    ELSE IF Len(parts) >= 2 /\ Len(parts) = 2 /\ IsConfigYaml(parts[2])
    THEN <<parts[1], "service">>
    ELSE IF Len(parts) >= 2 /\ Len(parts) >= 4 /\ parts[2] = "usecases"
            /\ HasSuffixJson(parts[Len(parts)])
    THEN <<parts[1], "mock">>
    ELSE <<IF Len(parts) >= 2 THEN parts[1] ELSE "", "unknown">>

\* The ConfigChangeEvent that handleFileChange builds (ModTime is read by
\* nobody and left out).
handleFileChange(path, isRemoved) ==
    [Path |-> path, IsDeleted |-> isRemoved,
     ServiceID |-> classifyConfigFile(path)[1],
     ConfigType |-> classifyConfigFile(path)[2]]

NoEvent == [Path |-> <<>>, IsDeleted |-> FALSE, ServiceID |-> "", ConfigType |-> ""]

\* The paths the debounce is exercised on.
DebouncePaths == { <<"config.yaml">>, <<"A", "config.yaml">> }

(* ------------------------------ hot reloader -------------------------- *)
\* NewHotReloader: the debounce delay it gives the watcher, 500ms, as two
\* ticks of 250ms.
DebounceDelay == 2

\* recentEvents has no entry for the path.
NoTime == -1

\* getServiceUsecase
getServiceUsecase(serviceID) == "default"

\* extractUsecaseFromPath: filepath.Base(filepath.Dir(path))
extractUsecaseFromPath(path) == IF Len(path) >= 2 THEN path[Len(path) - 1] ELSE "."

(* ------------------------------ goroutines ---------------------------- *)
\* The mutex is not held.
NoThread == ""

\* main; the goroutine of processEvents, on which the watcher calls the hot
\* reloader's callback at once (debounceEvent, line 330); and the goroutine
\* of a time.AfterFunc timer, on which it calls it later (line 325).
Threads == {"main", "cb", "timer"}

NoGlobalFile == [kind |-> "unread", Services |-> <<>>]
NoServiceFile == [kind |-> "unread", Port |-> 0]
NoMockFile == [kind |-> "unread", Mocks |-> <<>>]
NoBefore == [n \in ServiceIds |-> NoRt]

\* The goroutine has no context.
NoCtx == -1

\* A goroutine outside every call.  ev: the event handleConfigChange was
\* called with.  gIn, idx, current, pending, gErr: ReloadGlobalConfig's
\* globalCfg, loop index, currentServices, the names its second loop has yet
\* to visit, its result.  svc, usecase, scIn, mfIn, rErr: ReloadService's
\* arguments, the files it read and its result.  caller: who called
\* ReloadService.  created: the server ReloadService has built.  removing,
\* existing: the name the second loop of ReloadGlobalConfig is at and the
\* server it got for it.  ctx: the seconds since the context.WithTimeout whose
\* context the goroutine gives to Stop.  drain: the seconds until the
\* connections of the server it is stopping are drained.  Two locals are
\* history: failed, the services whose ReloadService returned an error in this
\* ReloadGlobalConfig, and before, serviceMap at its entry.
IdleThread ==
    [pc |-> "idle", ev |-> NoEvent,
     gIn |-> NoGlobalFile, idx |-> 0, current |-> {}, pending |-> {},
     gErr |-> "", failed |-> {}, before |-> NoBefore,
     svc |-> "", usecase |-> "", caller |-> "", scIn |-> NoServiceFile,
     mfIn |-> NoMockFile, rErr |-> "",
     created |-> NoRt, removing |-> "", existing |-> NoRt,
     ctx |-> NoCtx, drain |-> 0]

\* The locals of ReloadService, cleared.
ClearReload(l) ==
    [l EXCEPT !.svc = "", !.usecase = "", !.caller = "", !.scIn = NoServiceFile,
              !.mfIn = NoMockFile, !.rErr = ""]

\* The objects something still refers to: the manager's views, a goroutine's
\* locals, or the goroutine that runs the object's Start.
Reachable(rts, list, smap, ths) ==
    {r \in RtIds :
        \/ \E i \in 1..Len(list) : list[i] = r
        \/ \E n \in ServiceIds : smap[n] = r
        \/ \E t \in Threads, n \in ServiceIds : ths[t].before[n] = r
        \/ \E t \in Threads : ths[t].created = r \/ ths[t].existing = r
        \/ rts[r].startPc \in {"spawned", "serving"}}

\* The identity of object r once the objects of S are the only ones left.
Moved(S, r) == IF r \in S THEN Cardinality({q \in S : q <= r}) ELSE NoRt

\* The garbage collector: the objects, the views and the goroutines' locals
\* once every object that nothing refers to is gone.
Collect(rts, list, smap, ths) ==
    LET S == Reachable(rts, list, smap, ths)
    IN  [rt |-> [i \in RtIds |-> IF \E r \in S : Moved(S, r) = i
                                 THEN rts[CHOOSE r \in S : Moved(S, r) = i]
                                 ELSE NoServer],
         Servers |-> [i \in 1..Len(list) |-> Moved(S, list[i])],
         serviceMap |-> [n \in ServiceIds |-> Moved(S, smap[n])],
         th |-> [t \in Threads |->
                    [ths[t] EXCEPT !.before = [n \in ServiceIds |-> Moved(S, ths[t].before[n])],
                                   !.created = Moved(S, @),
                                   !.existing = Moved(S, @)]]]

\* The identity of the next object that NewMockServer builds (0: none is free).
NextId(rts) ==
    IF \E r \in RtIds : rts[r] = NoServer
    THEN CHOOSE r \in RtIds : rts[r] = NoServer /\ \A q \in 1..(r - 1) : rts[q] # NoServer
    ELSE NoRt

\* service -> usecase as a services list names them.
Referenced(services) ==
    [n \in ServiceIds |->
        IF \E i \in 1..Len(services) : services[i].Name = n
        THEN services[CHOOSE i \in 1..Len(services) : services[i].Name = n].Usecase
        ELSE ""]

\* NewServerManager and NewConfigWatcher: no server, no event, no timer.
InitManager ==
    /\ rt = [r \in RtIds |-> NoServer]
    /\ Servers = <<>>
    /\ serviceMap = [n \in ServiceIds |-> NoRt]
    /\ portMap = {}
    /\ mutex = NoThread
    /\ th = [t \in Threads |-> IF t = "main" THEN [IdleThread EXCEPT !.pc = "m_load"]
                                ELSE IdleThread]
    /\ lastGlobal = [n \in ServiceIds |-> ""]
    /\ clock = 0
    /\ recentEvents = [p \in DebouncePaths |-> NoTime]
    /\ timers = {}
    /\ arrivals = <<>>
    /\ calls = {}
    /\ done = FALSE

\* No handler has been called.
InitServing ==
    /\ handler = NoHandler
    /\ request = NoRequest
    /\ response = NoResponse

\* No http.Server is followed through a Stop.
InitShutdown ==
    /\ srv = NoHttpServer
    /\ stopCall = NoStopCall

Init == InitManager /\ InitServing /\ InitShutdown

(* --------------------------------- main ------------------------------- *)
\* main, lines 78-95: load and validate the global config, or log.Fatalf; the
\* file is one of files.
MainLoadGlobalFrom(t, files) ==
    /\ th[t].pc = "m_load"
    /\ \E f \in files :
        IF LoadGlobalConfig(f) # "" \/ ~ValidateGlobalConfig(f.Services)
        THEN /\ th' = [th EXCEPT ![t].pc = "m_fatal", ![t].gIn = f]
             /\ UNCHANGED lastGlobal
        ELSE /\ th' = [th EXCEPT ![t].pc = "m_loop", ![t].gIn = f, ![t].idx = 1]
             /\ lastGlobal' = Referenced(f.Services)
    /\ UNCHANGED fleetVars
    /\ UNCHANGED otherVars

MainLoadGlobal(t) == MainLoadGlobalFrom(t, GlobalFiles)

\* The load and validate steps without the validation of the mock list.
LoadAndValidateServiceNoMocks(sf, mf) ==
    IF LoadServiceConfig(sf) # "" THEN "error loading service config"
    ELSE IF ~ValidateServiceConfig(sf.Port) THEN "service configuration validation failed"
    ELSE IF LoadMockConfigs(mf) # "" THEN "error loading mock configs"
    ELSE ""

\* The error of the four load and validate steps that main and ReloadService
\* both run for one service ("": all four passed).
LoadAndValidateService(sf, mf) ==
    IF LoadServiceConfig(sf) # "" THEN "error loading service config"
    ELSE IF ~ValidateServiceConfig(sf.Port) THEN "service configuration validation failed"
    ELSE IF LoadMockConfigs(mf) # "" THEN "error loading mock configs"
    ELSE IF ~ValidateMockConfigs(mf.Mocks) THEN "mock configuration validation failed"
    ELSE ""

\* main, lines 101-145: one turn of the loop over globalCfg.Services.  A
\* service whose files do not load or validate is skipped; the files read and
\* the services skipped are kept as history.
MainProcessServiceFrom(t, serviceFiles, mockFiles) ==
    /\ th[t].pc = "m_loop"
    /\ th[t].idx <= Len(th[t].gIn.Services)
    /\ \E sf \in serviceFiles, mf \in mockFiles :
        LET ref == th[t].gIn.Services[th[t].idx]
            \* the mock file is not read when the service config is refused
            read == IF LoadServiceConfig(sf) # "" \/ ~ValidateServiceConfig(sf.Port)
                    THEN NoMockFile ELSE mf
            new == NewMockServer(ref.Name, sf.Port, mf.Mocks, ref.Usecase)
            id == NextId(rt)
            rts == [rt EXCEPT ![id] = new]
        IN  /\ read = NoMockFile => mf = CHOOSE m \in mockFiles : TRUE
            /\ IF LoadAndValidateService(sf, mf) # ""
               THEN /\ UNCHANGED fleetVars
                    /\ th' = [th EXCEPT ![t].idx = @ + 1, ![t].scIn = sf, ![t].mfIn = read,
                                        ![t].failed = @ \cup {ref.Name}]
               ELSE /\ id # NoRt
                    /\ rt' = rts
                    /\ Servers' = AddServerServers(rts, Servers, serviceMap, id)
                    /\ serviceMap' = AddServerServiceMap(rts, serviceMap, id)
                    /\ portMap' = AddServerPortMap(rts, serviceMap, portMap, id)
                    /\ th' = [th EXCEPT ![t].idx = @ + 1, ![t].scIn = sf, ![t].mfIn = read]
    /\ UNCHANGED lastGlobal
    /\ UNCHANGED otherVars

MainProcessService(t) == MainProcessServiceFrom(t, ServiceFiles, MockFiles)

\* main, lines 148-150
MainNoServers(t) ==
    /\ th[t].pc = "m_loop"
    /\ th[t].idx > Len(th[t].gIn.Services)
    /\ Len(Servers) = 0
    /\ th' = [th EXCEPT ![t].pc = "m_fatal"]
    /\ UNCHANGED <<fleetVars, lastGlobal>>
    /\ UNCHANGED otherVars

\* StartAll: one Start goroutine for every server of the list.
StartAll(rts, list) ==
    [r \in RtIds |-> IF \E i \in 1..Len(list) : list[i] = r THEN GoStart(rts, r)[r]
                     ELSE rts[r]]

\* main, lines 159-176: StartAll, which takes the mutex for its loop and
\* releases it, then the hot reloader watches.
MainStartAll(t) ==
    /\ th[t].pc = "m_loop"
    /\ th[t].idx > Len(th[t].gIn.Services)
    /\ Len(Servers) # 0
    /\ mutex = NoThread
    /\ rt' = StartAll(rt, Servers)
    /\ th' = [th EXCEPT ![t] = [IdleThread EXCEPT !.pc = "m_wait"]]
    /\ UNCHANGED <<Servers, serviceMap, portMap, lastGlobal>>
    /\ UNCHANGED otherVars

\* The body of a Start goroutine.
StartServer(r) ==
    /\ rt[r].startPc = "spawned"
    /\ LET c == Collect(Start(rt, r), Servers, serviceMap, th)
       IN  /\ rt' = c.rt
           /\ Servers' = c.Servers
           /\ serviceMap' = c.serviceMap
           /\ th' = c.th
    /\ UNCHANGED <<portMap, lastGlobal>>
    /\ UNCHANGED otherVars

(* ---------------------------- ReloadService --------------------------- *)
\* The call ReloadService(serviceName, usecase) made by a goroutine with locals l.
CallReloadService(l, serviceName, usecase, caller) ==
    [l EXCEPT !.pc = "r_load", !.svc = serviceName, !.usecase = usecase,
              !.caller = caller]

\* ReloadService, from its entry to its return.  Lines 38-62: load and
\* validate, any error returns it.  Lines 65-79: stop the existing server.
\* Lines 82-96: NewMockServer, AddServer, the go statement that launches
\* Start, and return nil.
ReloadService(t) ==
    /\ th[t].pc = "r_load"
    /\ \E sf \in ServiceFiles, mf \in MockFiles :
        LET err == LoadAndValidateService(sf, mf)
            \* the mock file is not read when the service config is refused
            read == IF LoadServiceConfig(sf) # "" \/ ~ValidateServiceConfig(sf.Port)
                    THEN NoMockFile ELSE mf
            existing == GetServerByService(serviceMap, th[t].svc)
            stopped == IF existing # NoRt THEN Stop(rt, existing) ELSE rt
            new == NewMockServer(th[t].svc, sf.Port, mf.Mocks, th[t].usecase)
            id == NextId(rt)
            rts == [stopped EXCEPT ![id] = new]
        IN  /\ read = NoMockFile => mf = CHOOSE m \in MockFiles : TRUE
            /\ IF err # ""
               THEN /\ th' = [th EXCEPT ![t].pc = "r_ret", ![t].rErr = err,
                                        ![t].scIn = sf, ![t].mfIn = read]
                    /\ UNCHANGED fleetVars
               ELSE LET c == Collect(GoStart(rts, id),
                                      AddServerServers(rts, Servers, serviceMap, id),
                                      AddServerServiceMap(rts, serviceMap, id),
                                      [th EXCEPT ![t].pc = "r_ret", ![t].rErr = "",
                                                 ![t].scIn = sf, ![t].mfIn = read])
                    IN  /\ id # NoRt
                        /\ rt' = c.rt
                        /\ Servers' = c.Servers
                        /\ serviceMap' = c.serviceMap
                        /\ portMap' = AddServerPortMap(rts, serviceMap, portMap, id)
                        /\ th' = c.th
    /\ UNCHANGED lastGlobal
    /\ UNCHANGED otherVars

(* -------------------------- ReloadGlobalConfig ------------------------ *)
\* The call ReloadGlobalConfig() made by a goroutine with locals l.
CallReloadGlobalConfig(l) == [l EXCEPT !.pc = "g_load", !.before = serviceMap]

\* The names of the servers of a list.
ServerNames(rts, list) == {rts[list[i]].ServiceName : i \in 1..Len(list)}

\* The names listed by a services list.
RefNames(services) == {services[i].Name : i \in 1..Len(services)}

\* ReloadGlobalConfig, lines 104-123: load and validate the global config,
\* then note the names of the current servers; the file is one of files.
ReloadGlobalLoadFrom(t, files) ==
    /\ th[t].pc = "g_load"
    /\ \E f \in files :
        IF LoadGlobalConfig(f) # ""
        THEN /\ th' = [th EXCEPT ![t].pc = "g_ret", ![t].gIn = f,
                                 ![t].gErr = "error loading global configuration"]
             /\ UNCHANGED lastGlobal
        ELSE IF ~ValidateGlobalConfig(f.Services)
        THEN /\ th' = [th EXCEPT ![t].pc = "g_ret", ![t].gIn = f,
                                 ![t].gErr = "global configuration validation failed"]
             /\ UNCHANGED lastGlobal
        ELSE /\ th' = [th EXCEPT ![t].pc = "g_loop", ![t].gIn = f, ![t].idx = 1,
                                 ![t].current = ServerNames(rt, Servers)]
             /\ lastGlobal' = Referenced(f.Services)
    /\ UNCHANGED fleetVars
    /\ UNCHANGED otherVars

ReloadGlobalLoad(t) == ReloadGlobalLoadFrom(t, GlobalFiles)

\* ReloadGlobalConfig, lines 126-130: the next service of the config is reloaded.
ReloadGlobalNext(t) ==
    /\ th[t].pc = "g_loop"
    /\ th[t].idx <= Len(th[t].gIn.Services)
    /\ th' = [th EXCEPT ![t] = CallReloadService(th[t], th[t].gIn.Services[th[t].idx].Name,
                                                 th[t].gIn.Services[th[t].idx].Usecase, "g")]
    /\ UNCHANGED <<fleetVars, lastGlobal>>
    /\ UNCHANGED otherVars

\* A first loop that returns the error of ReloadService instead of going on.
ReloadGlobalReturnedAbort(t) ==
    /\ th[t].pc = "r_ret"
    /\ th[t].caller = "g"
    /\ th' = [th EXCEPT ![t] =
                IF th[t].rErr # ""
                THEN [ClearReload(th[t]) EXCEPT !.pc = "g_ret", !.gErr = th[t].rErr,
                                                !.failed = @ \cup {th[t].svc}]
                ELSE [ClearReload(th[t]) EXCEPT !.pc = "g_loop", !.idx = @ + 1]]
    /\ UNCHANGED <<fleetVars, lastGlobal>>
    /\ UNCHANGED otherVars

\* ReloadGlobalConfig, lines 130-134: ReloadService has returned; an error is
\* logged and the loop goes on.
ReloadGlobalReturned(t) ==
    /\ th[t].pc = "r_ret"
    /\ th[t].caller = "g"
    /\ th' = [th EXCEPT ![t] = [ClearReload(th[t]) EXCEPT
                  !.pc = "g_loop", !.idx = @ + 1,
                  !.failed = IF th[t].rErr # "" THEN @ \cup {th[t].svc} ELSE @]]
    /\ UNCHANGED <<fleetVars, lastGlobal>>
    /\ UNCHANGED otherVars

\* A second loop that finds nothing to remove.
UnlistedNone(current, services) == {}

\* ReloadGlobalConfig, lines 137-139: the names the second loop acts on, those
\* of currentServices that the config does not list.
Unlisted(current, services) == current \ RefNames(services)

\* ReloadGlobalConfig, line 137: the second loop starts.
ReloadGlobalSweep(t) ==
    /\ th[t].pc = "g_loop"
    /\ th[t].idx > Len(th[t].gIn.Services)
    /\ th' = [th EXCEPT ![t].pc = "g_remove",
                        ![t].pending = Unlisted(th[t].current, th[t].gIn.Services)]
    /\ UNCHANGED <<fleetVars, lastGlobal>>
    /\ UNCHANGED otherVars

\* A removal that leaves the port's entry in portMap.
RemovePortKept(pmap, port) == pmap

\* ReloadGlobalConfig, line 154: delete(m.portMap, server.Port)
RemovePort(pmap, port) == pmap \ {port}

\* ReloadGlobalConfig, lines 137-166: one turn of the second loop (a Go map is
\* ranged over in any order): GetServerByService, Stop, and the deletion from
\* the three views.
ReloadGlobalRemove(t) ==
    /\ th[t].pc = "g_remove"
    /\ \E name \in th[t].pending :
        LET existing == GetServerByService(serviceMap, name)
        IN  /\ IF existing # NoRt
               THEN LET c == Collect(Stop(rt, existing),
                                      RemoveFirstNamed(rt, Servers, name),
                                      [serviceMap EXCEPT ![name] = NoRt],
                                      [th EXCEPT ![t].pending = @ \ {name}])
                    IN  /\ rt' = c.rt
                        /\ Servers' = c.Servers
                        /\ serviceMap' = c.serviceMap
                        /\ portMap' = RemovePort(portMap, rt[existing].Port)
                        /\ th' = c.th
               ELSE /\ th' = [th EXCEPT ![t].pending = @ \ {name}]
                    /\ UNCHANGED <<rt, serviceMap, portMap, Servers>>
    /\ UNCHANGED lastGlobal
    /\ UNCHANGED otherVars

\* ReloadGlobalConfig, lines 168-169: return nil.
ReloadGlobalDone(t) ==
    /\ th[t].pc = "g_remove"
    /\ th[t].pending = {}
    /\ th' = [th EXCEPT ![t].pc = "g_ret", ![t].gErr = ""]
    /\ UNCHANGED <<fleetVars, lastGlobal>>
    /\ UNCHANGED otherVars

(* -------------------------- handleConfigChange ------------------------ *)
\* The watcher calls back once main has started the hot reloader.
Watching == th["main"].pc = "m_wait"

\* A handler that does not look at IsDeleted.
DispatchDeleted(event) ==
    IF event.ConfigType = "global" THEN "ReloadGlobalConfig"
    ELSE IF event.ConfigType = "service" THEN "ReloadService"
    ELSE IF event.ConfigType = "mock"
    THEN IF extractUsecaseFromPath(event.Path) = "" THEN "ignore" ELSE "ReloadService"
    ELSE "ignore"

\* handleConfigChange, lines 52-92: which call the handler makes for an event.
Dispatch(event) ==
    IF event.IsDeleted THEN "ignore"
    ELSE IF event.ConfigType = "global" THEN "ReloadGlobalConfig"
    ELSE IF event.ConfigType = "service" THEN "ReloadService"
    ELSE IF event.ConfigType = "mock"
    THEN IF extractUsecaseFromPath(event.Path) = "" THEN "ignore" ELSE "ReloadService"
    ELSE "ignore"

\* handleConfigChange, lines 69 and 81: the usecase the handler reloads with.
DispatchUsecase(event) ==
    IF event.ConfigType = "service" THEN getServiceUsecase(event.ServiceID)
    ELSE extractUsecaseFromPath(event.Path)

\* handleConfigChange on goroutine t for the event of a path, up to the call
\* it makes.
HandleEvent(t, path, isRemoved) ==
    /\ Watching
    /\ th[t].pc = "idle"
    /\ LET event == handleFileChange(path, isRemoved)
           l == [th[t] EXCEPT !.ev = event]
       IN  th' = [th EXCEPT ![t] =
                CASE Dispatch(event) = "ReloadGlobalConfig" -> CallReloadGlobalConfig(l)
                  [] Dispatch(event) = "ReloadService" ->
                        CallReloadService(l, event.ServiceID, DispatchUsecase(event), "h")
                  [] OTHER -> [l EXCEPT !.pc = "h_ret"]]
    /\ UNCHANGED <<fleetVars, lastGlobal>>
    /\ UNCHANGED otherVars

\* The callbacks of processEvents, one after the other.
handleConfigChange(t) ==
    /\ t = "cb"
    /\ \E path \in WatchPaths, isRemoved \in BOOLEAN : HandleEvent(t, path, isRemoved)

\* handleConfigChange, lines 63-65, 75-77, 87-89 and 93: the call has returned,
\* or there was none to make; an error is logged and the handler returns to
\* the watcher.
handleConfigChangeReturn(t) ==
    /\ IF th[t].pc = "r_ret" THEN th[t].caller = "h" ELSE th[t].pc \in {"g_ret", "h_ret"}
    /\ LET c == Collect(rt, Servers, serviceMap, [th EXCEPT ![t] = IdleThread])
       IN  /\ rt' = c.rt
           /\ Servers' = c.Servers
           /\ serviceMap' = c.serviceMap
           /\ th' = c.th
    /\ UNCHANGED <<portMap, lastGlobal>>
    /\ UNCHANGED otherVars

(* ------------------------- concurrent callbacks ----------------------- *)
\* Two callbacks at a time: one on the goroutine of processEvents and one on
\* the goroutine of a timer.  ReloadService and ReloadGlobalConfig are followed
\* from one use of the mutex to the next, and AddServer through its critical
\* section.

\* The events of the two callbacks: a write of the global config, of a
\* service config and of a mock file.
RacePaths == { <<"config.yaml">>, <<"A", "config.yaml">>, <<"A", "usecases", "alt", "all.json">> }

\* The files their ReloadService finds: a service config on either port or
\* none, and a valid mock list.
RaceServiceFiles == {f \in ServiceFiles : f.Port # 80}

RaceMockFiles == {[kind |-> "ok", Mocks |-> <<M1>>]}

\* The global configs of the start-up and of their ReloadGlobalConfig.
RaceGlobalFiles ==
    {[kind |-> "ok", Services |-> l] :
        l \in { <<Ref("A", "default")>>, <<Ref("B", "default")>>,
                <<Ref("A", "default"), Ref("B", "default")>> }}

\* A callback begins on goroutine t; each of the two goroutines runs one, and
\* the timer's is for a file of the service.
Callback(t) ==
    /\ t # "main"
    /\ \E path \in (IF t = "cb" THEN RacePaths ELSE RacePaths \ {<<"config.yaml">>}) :
          HandleEvent(t, path, FALSE)

\* A callback returns.
CallbackReturn(t) ==
    /\ IF th[t].pc = "r_ret" THEN th[t].caller = "h" ELSE th[t].pc \in {"g_ret", "h_ret"}
    /\ LET c == Collect(rt, Servers, serviceMap,
                        [th EXCEPT ![t] = [IdleThread EXCEPT !.pc = "returned"]])
       IN  /\ rt' = c.rt
           /\ Servers' = c.Servers
           /\ serviceMap' = c.serviceMap
           /\ th' = c.th
    /\ UNCHANGED <<portMap, lastGlobal>>
    /\ UNCHANGED otherVars

\* ReloadService, lines 38-79: load and validate, any error returns it;
\* GetServerByService, under the mutex; Stop of the server it returned.
ReloadServiceStop(t) ==
    /\ th[t].pc = "r_load"
    /\ \E sf \in RaceServiceFiles, mf \in RaceMockFiles :
        LET err == LoadAndValidateService(sf, mf)
            read == IF LoadServiceConfig(sf) # "" \/ ~ValidateServiceConfig(sf.Port)
                    THEN NoMockFile ELSE mf
            existing == GetServerByService(serviceMap, th[t].svc)
        IN  /\ read = NoMockFile => mf = CHOOSE m \in RaceMockFiles : TRUE
            /\ IF err # ""
               THEN /\ th' = [th EXCEPT ![t].pc = "r_ret", ![t].rErr = err,
                                        ![t].scIn = sf, ![t].mfIn = read]
                    /\ UNCHANGED rt
               ELSE /\ mutex = NoThread
                    /\ th' = [th EXCEPT ![t].pc = "r_add", ![t].scIn = sf, ![t].mfIn = read]
                    /\ rt' = IF existing # NoRt THEN Stop(rt, existing) ELSE rt
    /\ UNCHANGED <<Servers, serviceMap, portMap, lastGlobal>>
    /\ UNCHANGED otherVars

\* ReloadService, lines 82-85, and AddServer, lines 78-93: NewMockServer, then
\* AddServer takes the mutex, removes the server that serviceMap has for the
\* service from the list and deletes the entry of its port.
AddServerReplace(t) ==
    /\ th[t].pc = "r_add"
    /\ mutex = NoThread
    /\ LET id == NextId(rt)
           existing == serviceMap[th[t].svc]
       IN  /\ id # NoRt
           /\ rt' = [rt EXCEPT ![id] = NewMockServer(th[t].svc, th[t].scIn.Port,
                                                     th[t].mfIn.Mocks, th[t].usecase)]
           /\ th' = [th EXCEPT ![t].pc = "a_add", ![t].created = id]
           /\ IF existing # NoRt
              THEN /\ Servers' = RemoveFirstNamed(rt, Servers, th[t].svc)
                   /\ portMap' = portMap \ {rt[existing].Port}
              ELSE UNCHANGED <<Servers, portMap>>
    /\ mutex' = t
    /\ UNCHANGED <<serviceMap, lastGlobal, watcherVars, servingVars, shutdownVars>>

\* AddServer, lines 96-104, and ReloadService, lines 88-96: the server is
\* appended and entered in both maps, the mutex is released, Start is
\* launched and ReloadService returns nil.
AddServerAppend(t) ==
    /\ th[t].pc = "a_add"
    /\ mutex = t
    /\ LET id == th[t].created
           c == Collect(GoStart(rt, id), Append(Servers, id),
                        [serviceMap EXCEPT ![th[t].svc] = id],
                        [th EXCEPT ![t].pc = "r_ret", ![t].rErr = "", ![t].created = NoRt])
       IN  /\ rt' = c.rt
           /\ Servers' = c.Servers
           /\ serviceMap' = c.serviceMap
           /\ th' = c.th
           /\ portMap' = portMap \cup {rt[id].Port}
    /\ mutex' = NoThread
    /\ UNCHANGED <<lastGlobal, watcherVars, servingVars, shutdownVars>>

\* ReloadGlobalConfig, lines 137-149: the second loop comes to a name;
\* GetServerByService, under the mutex, and Stop of the server it returned.
RemoveStop(t) ==
    /\ th[t].pc = "g_remove"
    /\ mutex = NoThread
    /\ \E name \in th[t].pending :
        LET existing == GetServerByService(serviceMap, name)
        IN  IF existing # NoRt
            THEN /\ rt' = Stop(rt, existing)
                 /\ th' = [th EXCEPT ![t].pc = "g_delete", ![t].pending = @ \ {name},
                                     ![t].removing = name, ![t].existing = existing]
            ELSE /\ th' = [th EXCEPT ![t].pending = @ \ {name}]
                 /\ UNCHANGED rt
    /\ UNCHANGED <<Servers, serviceMap, portMap, lastGlobal>>
    /\ UNCHANGED otherVars

\* ReloadGlobalConfig, lines 152-163: under the mutex, the entry of the name,
\* the entry of the stopped server's port and the first server of the list
\* with that name are deleted.
RemoveDelete(t) ==
    /\ th[t].pc = "g_delete"
    /\ mutex = NoThread
    /\ LET c == Collect(rt, RemoveFirstNamed(rt, Servers, th[t].removing),
                        [serviceMap EXCEPT ![th[t].removing] = NoRt],
                        [th EXCEPT ![t].pc = "g_remove", ![t].removing = "",
                                   ![t].existing = NoRt])
       IN  /\ rt' = c.rt
           /\ Servers' = c.Servers
           /\ serviceMap' = c.serviceMap
           /\ th' = c.th
           /\ portMap' = RemovePort(portMap, rt[th[t].existing].Port)
    /\ UNCHANGED lastGlobal
    /\ UNCHANGED otherVars

(* ------------------------------ shutdown ------------------------------ *)
\* main, lines 183-191: the signal has come and main stops the hot reloader,
\* whose Stop is ConfigWatcher.Stop.  A callback that has begun goes on.
MainStopReloader(t) ==
    /\ th[t].pc = "m_wait"
    /\ th' = [th EXCEPT ![t].pc = "sa_lock"]
    /\ done' = TRUE
    /\ UNCHANGED <<fleetVars, lastGlobal, mutex, servingVars, shutdownVars>>
    /\ UNCHANGED <<clock, recentEvents, timers, arrivals, calls>>

\* StopAll, lines 122-126: the mutex is taken for the whole call.
StopAllLock(t) ==
    /\ th[t].pc = "sa_lock"
    /\ mutex = NoThread
    /\ mutex' = t
    /\ th' = [th EXCEPT ![t].pc = "sa_loop", ![t].idx = 1]
    /\ UNCHANGED <<fleetVars, lastGlobal, watcherVars, servingVars, shutdownVars>>

\* StopAll, lines 128-132: one turn of the loop over m.Servers, the Stop of
\* one server; an error is logged.
StopAllStop(t) ==
    /\ th[t].pc = "sa_loop"
    /\ th[t].idx <= Len(Servers)
    /\ rt' = Stop(rt, Servers[th[t].idx])
    /\ th' = [th EXCEPT ![t].idx = @ + 1]
    /\ UNCHANGED <<Servers, serviceMap, portMap, lastGlobal>>
    /\ UNCHANGED otherVars

\* A StopAll that returns without Unlock.
StopAllReturnLocked(t) ==
    /\ th[t].pc = "sa_loop"
    /\ th[t].idx > Len(Servers)
    /\ th' = [th EXCEPT ![t].pc = "sa_ret"]
    /\ UNCHANGED <<fleetVars, lastGlobal, mutex, watcherVars, servingVars, shutdownVars>>

\* StopAll, line 133 and the deferred Unlock: the loop is over and StopAll
\* returns.
StopAllReturn(t) ==
    /\ th[t].pc = "sa_loop"
    /\ th[t].idx > Len(Servers)
    /\ mutex' = NoThread
    /\ th' = [th EXCEPT ![t].pc = "sa_ret"]
    /\ UNCHANGED <<fleetVars, lastGlobal, watcherVars, servingVars, shutdownVars>>

(* ------------------------ Stop under its deadline --------------------- *)
\* Here a Stop takes time: http.Server.Shutdown closes the listener at once
\* and then waits until the connections of the server are drained or its
\* context is done.  ReloadService, ReloadGlobalConfig and StopAll are
\* followed into each Stop and out of it.

\* A request in flight that never completes.
Never == MaxDuration + 1

\* The seconds the connections of a server take to drain, as its Stop finds
\* them: 0 (no request in flight), one second, never.
DrainTimes == {0, 1, Never}

\* The files that are read here: a service config on port 8081 or none, and
\* a global config that lists A, or A and B.
DeadlineServiceFiles == {f \in RaceServiceFiles : f.Port # 8082}

DeadlineGlobalFiles ==
    {f \in RaceGlobalFiles : \E i \in 1..Len(f.Services) : f.Services[i].Name = "A"}

\* The events of the callbacks: a write of the global config and of a
\* service config.
DeadlinePaths == {path \in RacePaths : Len(path) <= 2}

\* A Shutdown that waits for the connections whatever its context.
ShutdownReturnsDrained(drain, elapsed) == drain = 0

\* MockServer.Stop returns: http.Server.Shutdown(ctx) has no connection left
\* to wait for, or ctx is done.
ShutdownReturns(drain, elapsed) == drain = 0 \/ elapsed >= ShutdownTimeout

\* Goroutine t is inside a Stop.
InStop(t) == th[t].pc \in {"r_stop", "g_stop", "sa_stop"}

\* ReloadService, lines 38-73: load and validate, any error returns it;
\* GetServerByService, under the mutex; context.WithTimeout and the call of
\* Stop on the server it returned.
ReloadServiceStopEnter(t) ==
    /\ th[t].pc = "r_load"
    /\ \E sf \in DeadlineServiceFiles, mf \in RaceMockFiles, d \in DrainTimes :
        LET err == LoadAndValidateService(sf, mf)
            read == IF LoadServiceConfig(sf) # "" \/ ~ValidateServiceConfig(sf.Port)
                    THEN NoMockFile ELSE mf
            existing == GetServerByService(serviceMap, th[t].svc)
        IN  /\ read = NoMockFile => mf = CHOOSE m \in RaceMockFiles : TRUE
            /\ IF err # ""
               THEN /\ d = 0
                    /\ th' = [th EXCEPT ![t].pc = "r_ret", ![t].rErr = err,
                                        ![t].scIn = sf, ![t].mfIn = read]
                    /\ UNCHANGED rt
               ELSE /\ mutex = NoThread
                    /\ IF existing # NoRt
                       THEN /\ th' = [th EXCEPT ![t].pc = "r_stop", ![t].scIn = sf,
                                                ![t].mfIn = read, ![t].ctx = 0, ![t].drain = d]
                            /\ rt' = Stop(rt, existing)
                       ELSE /\ d = 0
                            /\ th' = [th EXCEPT ![t].pc = "r_add", ![t].scIn = sf,
                                                ![t].mfIn = read]
                            /\ UNCHANGED rt
    /\ UNCHANGED <<Servers, serviceMap, portMap, lastGlobal>>
    /\ UNCHANGED otherVars

\* ReloadService, lines 73-79: Stop has returned, with an error that is logged
\* or without, and the goroutine has slept its 100ms.
ReloadServiceStopReturn(t) ==
    /\ th[t].pc = "r_stop"
    /\ ShutdownReturns(th[t].drain, th[t].ctx)
    /\ th' = [th EXCEPT ![t].pc = "r_add", ![t].ctx = NoCtx, ![t].drain = 0]
    /\ UNCHANGED <<fleetVars, lastGlobal>>
    /\ UNCHANGED otherVars

\* ReloadGlobalConfig, lines 137-146: the second loop comes to a name;
\* GetServerByService, under the mutex; context.WithTimeout and the call of
\* Stop on the server it returned.
RemoveStopEnter(t) ==
    /\ th[t].pc = "g_remove"
    /\ mutex = NoThread
    /\ \E name \in th[t].pending, d \in DrainTimes :
        LET existing == GetServerByService(serviceMap, name)
        IN  IF existing # NoRt
            THEN /\ rt' = Stop(rt, existing)
                 /\ th' = [th EXCEPT ![t].pc = "g_stop", ![t].pending = @ \ {name},
                                     ![t].removing = name, ![t].existing = existing,
                                     ![t].ctx = 0, ![t].drain = d]
            ELSE /\ d = 0
                 /\ th' = [th EXCEPT ![t].pending = @ \ {name}]
                 /\ UNCHANGED rt
    /\ UNCHANGED <<Servers, serviceMap, portMap, lastGlobal>>
    /\ UNCHANGED otherVars

\* ReloadGlobalConfig, lines 146-149: Stop has returned and the context is
\* cancelled.
RemoveStopReturn(t) ==
    /\ th[t].pc = "g_stop"
    /\ ShutdownReturns(th[t].drain, th[t].ctx)
    /\ th' = [th EXCEPT ![t].pc = "g_delete", ![t].ctx = NoCtx, ![t].drain = 0]
    /\ UNCHANGED <<fleetVars, lastGlobal>>
    /\ UNCHANGED otherVars

\* StopAll, lines 122-126: the mutex is taken for the whole call, and one
\* context of 5 seconds is made for all the servers.
StopAllEnter(t) ==
    /\ th[t].pc = "sa_lock"
    /\ mutex = NoThread
    /\ mutex' = t
    /\ th' = [th EXCEPT ![t].pc = "sa_loop", ![t].idx = 1, ![t].ctx = 0]
    /\ UNCHANGED <<fleetVars, lastGlobal, watcherVars, servingVars, shutdownVars>>

\* StopAll, lines 128-129: the next server of m.Servers, and the call of its
\* Stop with the context of StopAll.
StopAllStopEnter(t) ==
    /\ th[t].pc = "sa_loop"
    /\ th[t].idx <= Len(Servers)
    /\ \E d \in DrainTimes :
          th' = [th EXCEPT ![t].pc = "sa_stop", ![t].drain = d]
    /\ rt' = Stop(rt, Servers[th[t].idx])
    /\ UNCHANGED <<Servers, serviceMap, portMap, lastGlobal>>
    /\ UNCHANGED otherVars

\* StopAll, lines 129-132: Stop has returned; an error is logged and the loop
\* goes on.  The services whose Stop returned an error are kept in failed, as
\* history.
StopAllStopReturn(t) ==
    /\ th[t].pc = "sa_stop"
    /\ ShutdownReturns(th[t].drain, th[t].ctx)
    /\ th' = [th EXCEPT ![t].pc = "sa_loop", ![t].idx = @ + 1, ![t].drain = 0,
                        ![t].failed = IF th[t].drain # 0
                                      THEN @ \cup {rt[Servers[th[t].idx]].ServiceName}
                                      ELSE @]
    /\ UNCHANGED <<fleetVars, lastGlobal>>
    /\ UNCHANGED otherVars

\* One second passes while some Stop waits, and none could return: every
\* context is a second older, up to its deadline, and the requests in flight
\* on the servers being stopped are a second nearer their end.
StopSecondPasses ==
    /\ \E t \in Threads : InStop(t)
    /\ \A t \in Threads : InStop(t) => ~ShutdownReturns(th[t].drain, th[t].ctx)
    /\ th' = [t \in Threads |->
                [th[t] EXCEPT
                    !.ctx = IF @ # NoCtx /\ @ < ShutdownTimeout THEN @ + 1 ELSE @,
                    !.drain = IF InStop(t) /\ @ \notin {0, Never} THEN @ - 1 ELSE @]]
    /\ UNCHANGED <<fleetVars, lastGlobal>>
    /\ UNCHANGED otherVars

(* --------------------------- watcher: debounce ------------------------ *)
\* What no step of the watcher changes.
notWatcherVars == <<fleetVars, th, lastGlobal, mutex, servingVars, shutdownVars>>

\* debounceEvent, line 316: the event goes to a timer.
TooRecent(exists, since) == exists /\ since < DebounceDelay

\* A timer that asks for more than debounceDelay of quiet.
QuietStrict(stillExists, since) == stillExists /\ since > DebounceDelay

\* debounceEvent, line 323: the timer hands the event to the callback.
Quiet(stillExists, since) == stillExists /\ since >= DebounceDelay

\* An invocation of the callback: the event it is given; as history, the
\* arrival number of that event, the time, whether a timer made the call and
\* the age of the latest event of the path.
Call(id, event, byTimer, since) ==
    [id |-> id, event |-> event, at |-> clock, byTimer |-> byTimer, since |-> since]

\* processEvents, handleFileChange and debounceEvent for one file event: the
\* event is recorded as the latest of its path, and is either handed to the
\* callback at once or left to a timer of debounceDelay.
FileChange(path, isRemoved) ==
    /\ ~done
    /\ Len(arrivals) < MaxEvents
    /\ clock + DebounceDelay <= MaxTime
    /\ LET event == handleFileChange(path, isRemoved)
           lastEvent == recentEvents[path]
           id == Len(arrivals) + 1
       IN  /\ recentEvents' = [recentEvents EXCEPT ![path] = clock]
           /\ arrivals' = Append(arrivals, [event |-> event, at |-> clock])
           /\ IF TooRecent(lastEvent # NoTime, clock - lastEvent)
              THEN /\ timers' = timers \cup {[id |-> id, event |-> event,
                                              deadline |-> clock + DebounceDelay]}
                   /\ UNCHANGED calls
              ELSE /\ calls' = calls \cup {Call(id, event, FALSE, 0)}
                   /\ UNCHANGED timers
    /\ UNCHANGED <<clock, done, notWatcherVars>>

\* The function given to time.AfterFunc for the event of arrival number id,
\* lines 318-326; the runtime runs it at its deadline or later.
TimerFire(id) ==
    /\ \E tm \in timers :
        /\ tm.id = id
        /\ clock >= tm.deadline
        /\ timers' = timers \ {tm}
        /\ LET lastEventTime == recentEvents[tm.event.Path]
           IN  IF Quiet(lastEventTime # NoTime, clock - lastEventTime)
               THEN calls' = calls \cup {Call(tm.id, tm.event, TRUE, clock - lastEventTime)}
               ELSE UNCHANGED calls
    /\ UNCHANGED <<clock, recentEvents, arrivals, done, notWatcherVars>>

\* ConfigWatcher.Stop: done is closed and processEvents returns; no timer is
\* stopped.
WatcherStop ==
    /\ ~done
    /\ done' = TRUE
    /\ UNCHANGED <<clock, recentEvents, timers, arrivals, calls, notWatcherVars>>

\* Time passes.
Tick ==
    /\ clock < MaxTime
    /\ clock' = clock + 1
    /\ UNCHANGED <<recentEvents, timers, arrivals, calls, done, notWatcherVars>>

(* ------------------------------- serving ------------------------------ *)
\* ServeHTTP: findMatchingMock, 404 when it finds none; otherwise the sleep
\* of calculateDelay when the delay is enabled, then headers, status and body.
\* A call leaves nothing behind in the handler, so each behaviour follows one.
ServeHTTP(r) ==
    /\ request = NoRequest
    /\ request' = r
    /\ LET i == findMatchingMock(handler.Mocks, r)
       IN  IF i = 0
           THEN response' = NotFound
           ELSE \E delay \in (IF handler.DelayConfig.Enabled
                              THEN calculateDelay(handler.DelayConfig) ELSE {0}) :
                    response' = Respond(handler.Mocks, i, delay)
    /\ UNCHANGED <<handler, fleetVars, th, lastGlobal, watcherVars, mutex, shutdownVars>>

(* ----------------------- MockServer.Stop and requests ----------------- *)
\* A client sends a request that the handler answers after d seconds, on a
\* new connection if the listener is open, or on an idle one.
SendRequest(c, d) ==
    /\ IF srv.conns[c] = Closed THEN srv.listening ELSE srv.conns[c] = Idle
    /\ srv' = [srv EXCEPT !.conns[c] = d]
    /\ UNCHANGED <<stopCall, fleetVars, th, lastGlobal, watcherVars, mutex, servingVars>>

\* Shutdown has nothing left to wait for, or its context has expired.
Drained == \A c \in ConnIds : srv.conns[c] = Closed

Expired == stopCall.elapsed >= ShutdownTimeout

\* One second passes: a request that was in its last second is answered and
\* its connection goes idle, or is closed when the server is shutting down.
SecondPasses ==
    /\ \E c \in ConnIds : srv.conns[c] > Idle
    /\ stopCall.pc = "waiting" => ~(Drained \/ Expired)
    /\ srv' = [srv EXCEPT !.conns = [c \in ConnIds |->
                  IF srv.conns[c] > 1 THEN srv.conns[c] - 1
                  ELSE IF srv.conns[c] = 1 THEN (IF srv.inShutdown THEN Closed ELSE Idle)
                  ELSE srv.conns[c]]]
    /\ stopCall' = IF stopCall.pc = "waiting"
                   THEN [stopCall EXCEPT !.elapsed = @ + 1] ELSE stopCall
    /\ UNCHANGED <<fleetVars, th, lastGlobal, watcherVars, mutex, servingVars>>

\* MockServer.Stop, entered: http.Server.Shutdown closes the listener and the
\* idle connections, then waits for the others.
StopEnter ==
    /\ stopCall.pc = "none"
    /\ srv' = [srv EXCEPT !.inShutdown = TRUE, !.listening = FALSE,
                          !.conns = [c \in ConnIds |->
                                        IF srv.conns[c] = Idle THEN Closed ELSE srv.conns[c]]]
    /\ stopCall' = [stopCall EXCEPT !.pc = "waiting"]
    /\ UNCHANGED <<fleetVars, th, lastGlobal, watcherVars, mutex, servingVars>>

\* MockServer.Stop, returning: Shutdown returns nil once no connection is
\* left, and the context's error once the context has expired; it closes no
\* connection that has a request in flight.
StopReturn ==
    /\ stopCall.pc = "waiting"
    /\ \/ Drained /\ stopCall' = [stopCall EXCEPT !.pc = "returned", !.err = ""]
       \/ Expired /\ stopCall' = [stopCall EXCEPT !.pc = "returned",
                                                    !.err = "context deadline exceeded"]
    /\ UNCHANGED <<srv, fleetVars, th, lastGlobal, watcherVars, mutex, servingVars>>

(* ---------------------------- specification --------------------------- *)
vars == <<rt, Servers, serviceMap, portMap, th, lastGlobal,
          clock, recentEvents, timers, arrivals, calls, done,
          mutex, handler, request, response, srv, stopCall>>

Next ==
    \/ \E t \in Threads : MainLoadGlobal(t)
    \/ \E t \in Threads : MainProcessService(t)
    \/ \E t \in Threads : MainNoServers(t)
    \/ \E t \in Threads : MainStartAll(t)
    \/ \E r \in RtIds : StartServer(r)
    \/ \E t \in Threads : handleConfigChange(t)
    \/ \E t \in Threads : handleConfigChangeReturn(t)
    \/ \E t \in Threads : ReloadService(t)
    \/ \E t \in Threads : ReloadGlobalLoad(t)
    \/ \E t \in Threads : ReloadGlobalNext(t)
    \/ \E t \in Threads : ReloadGlobalReturned(t)
    \/ \E t \in Threads : ReloadGlobalSweep(t)
    \/ \E t \in Threads : ReloadGlobalRemove(t)
    \/ \E t \in Threads : ReloadGlobalDone(t)

Spec == Init /\ [][Next]_vars

\* The watcher alone, with a callback that only records its invocations.
NextDebounce ==
    \/ \E path \in DebouncePaths, isRemoved \in BOOLEAN : FileChange(path, isRemoved)
    \/ \E id \in 1..MaxEvents : TimerFire(id)
    \/ Tick

SpecDebounce == Init /\ [][NextDebounce]_vars

\* The Go runtime keeps time moving and runs every timer that is due.
SpecDebounceFair ==
    /\ SpecDebounce
    /\ WF_vars(Tick)
    /\ \A id \in 1..MaxEvents : WF_vars(TimerFire(id))

\* The watcher and the Stop that main calls on it at shutdown.
NextWatcherStop ==
    \/ \E path \in DebouncePaths, isRemoved \in BOOLEAN : FileChange(path, isRemoved)
    \/ \E id \in 1..MaxEvents : TimerFire(id)
    \/ WatcherStop
    \/ Tick

SpecWatcherStop == Init /\ [][NextWatcherStop]_vars

\* The fleet with two callbacks at a time.
NextRace ==
    \/ \E t \in Threads : MainLoadGlobalFrom(t, RaceGlobalFiles)
    \/ \E t \in Threads : MainProcessServiceFrom(t, RaceServiceFiles, RaceMockFiles)
    \/ \E t \in Threads : MainNoServers(t)
    \/ \E t \in Threads : MainStartAll(t)
    \/ \E r \in RtIds : StartServer(r)
    \/ \E t \in Threads : Callback(t)
    \/ \E t \in Threads : CallbackReturn(t)
    \/ \E t \in Threads : ReloadServiceStop(t)
    \/ \E t \in Threads : AddServerReplace(t)
    \/ \E t \in Threads : AddServerAppend(t)
    \/ \E t \in Threads : ReloadGlobalLoadFrom(t, RaceGlobalFiles)
    \/ \E t \in Threads : ReloadGlobalNext(t)
    \/ \E t \in Threads : ReloadGlobalReturned(t)
    \/ \E t \in Threads : ReloadGlobalSweep(t)
    \/ \E t \in Threads : RemoveStop(t)
    \/ \E t \in Threads : RemoveDelete(t)
    \/ \E t \in Threads : ReloadGlobalDone(t)

SpecRace == Init /\ [][NextRace]_vars

\* The fleet from start-up to shutdown: the callbacks of processEvents, one
\* after the other and followed from one use of the mutex to the next, and
\* main, which stops the hot reloader and calls StopAll when its signal comes.
NextShutdown ==
    \/ \E t \in Threads : MainLoadGlobalFrom(t, RaceGlobalFiles)
    \/ \E t \in Threads : MainProcessServiceFrom(t, RaceServiceFiles, RaceMockFiles)
    \/ \E t \in Threads : MainNoServers(t)
    \/ \E t \in Threads : MainStartAll(t)
    \/ \E r \in RtIds : StartServer(r)
    \/ \E path \in RacePaths : HandleEvent("cb", path, FALSE)
    \/ \E t \in Threads : handleConfigChangeReturn(t)
    \/ \E t \in Threads : ReloadServiceStop(t)
    \/ \E t \in Threads : AddServerReplace(t)
    \/ \E t \in Threads : AddServerAppend(t)
    \/ \E t \in Threads : ReloadGlobalLoadFrom(t, RaceGlobalFiles)
    \/ \E t \in Threads : ReloadGlobalNext(t)
    \/ \E t \in Threads : ReloadGlobalReturned(t)
    \/ \E t \in Threads : ReloadGlobalSweep(t)
    \/ \E t \in Threads : RemoveStop(t)
    \/ \E t \in Threads : RemoveDelete(t)
    \/ \E t \in Threads : ReloadGlobalDone(t)
    \/ \E t \in Threads : MainStopReloader(t)
    \/ \E t \in Threads : StopAllLock(t)
    \/ \E t \in Threads : StopAllStop(t)
    \/ \E t \in Threads : StopAllReturn(t)

SpecShutdown == Init /\ [][NextShutdown]_vars

\* The same, with every Stop followed under its deadline.
NextDeadline ==
    \/ \E t \in Threads : MainLoadGlobalFrom(t, DeadlineGlobalFiles)
    \/ \E t \in Threads : MainProcessServiceFrom(t, DeadlineServiceFiles, RaceMockFiles)
    \/ \E t \in Threads : MainNoServers(t)
    \/ \E t \in Threads : MainStartAll(t)
    \/ \E r \in RtIds : StartServer(r)
    \/ \E path \in DeadlinePaths : HandleEvent("cb", path, FALSE)
    \/ \E t \in Threads : handleConfigChangeReturn(t)
    \/ \E t \in Threads : ReloadServiceStopEnter(t)
    \/ \E t \in Threads : ReloadServiceStopReturn(t)
    \/ \E t \in Threads : AddServerReplace(t)
    \/ \E t \in Threads : AddServerAppend(t)
    \/ \E t \in Threads : ReloadGlobalLoadFrom(t, DeadlineGlobalFiles)
    \/ \E t \in Threads : ReloadGlobalNext(t)
    \/ \E t \in Threads : ReloadGlobalReturned(t)
    \/ \E t \in Threads : ReloadGlobalSweep(t)
    \/ \E t \in Threads : RemoveStopEnter(t)
    \/ \E t \in Threads : RemoveStopReturn(t)
    \/ \E t \in Threads : RemoveDelete(t)
    \/ \E t \in Threads : ReloadGlobalDone(t)
    \/ \E t \in Threads : MainStopReloader(t)
    \/ \E t \in Threads : StopAllEnter(t)
    \/ \E t \in Threads : StopAllStopEnter(t)
    \/ \E t \in Threads : StopAllStopReturn(t)
    \/ \E t \in Threads : StopAllReturn(t)
    \/ StopSecondPasses

\* The steps of goroutine t: the start-up in main, and the manager's
\* operations from a call of ReloadService, ReloadGlobalConfig or StopAll to
\* its return.
Run(t) ==
    \/ MainLoadGlobalFrom(t, DeadlineGlobalFiles)
    \/ MainProcessServiceFrom(t, DeadlineServiceFiles, RaceMockFiles)
    \/ MainNoServers(t) \/ MainStartAll(t)
    \/ ReloadServiceStopEnter(t) \/ ReloadServiceStopReturn(t)
    \/ AddServerReplace(t) \/ AddServerAppend(t)
    \/ ReloadGlobalLoadFrom(t, DeadlineGlobalFiles) \/ ReloadGlobalNext(t)
    \/ ReloadGlobalReturned(t) \/ ReloadGlobalSweep(t)
    \/ RemoveStopEnter(t) \/ RemoveStopReturn(t) \/ RemoveDelete(t)
    \/ ReloadGlobalDone(t) \/ handleConfigChangeReturn(t)
    \/ StopAllEnter(t) \/ StopAllStopEnter(t) \/ StopAllStopReturn(t)
    \/ StopAllReturn(t)

\* The Go scheduler runs every goroutine that can run, a sync.Mutex that is
\* free goes to a goroutine that waits for it, and time passes.  No event and
\* no signal has to come.
SpecDeadlineFair ==
    /\ Init /\ [][NextDeadline]_vars
    /\ \A t \in Threads : WF_vars(Run(t))
    /\ WF_vars(StopSecondPasses)

\* The start-up, and then the first event that the watcher classifies and
\* hands to the hot reloader, up to the call the hot reloader makes for it.
NextClassify ==
    \/ \E t \in Threads : MainLoadGlobalFrom(t, DeadlineGlobalFiles)
    \/ \E t \in Threads : MainProcessServiceFrom(t, RaceServiceFiles, RaceMockFiles)
    \/ \E t \in Threads : MainNoServers(t)
    \/ \E t \in Threads : MainStartAll(t)
    \/ \E path \in ClassifyPaths, isRemoved \in BOOLEAN : HandleEvent("cb", path, isRemoved)

SpecClassify == Init /\ [][NextClassify]_vars

\* One MockHandler, built from a validated mock list and a delay
\* configuration, and the requests it is called with.
InitHandler ==
    /\ InitManager
    /\ InitShutdown
    /\ handler \in {NewMockHandler(l, d) : l \in HandlerMockLists, d \in DelayConfigs}
    /\ request = NoRequest
    /\ response = NoResponse

NextHandler == \E r \in Requests : ServeHTTP(r)

SpecHandler == InitHandler /\ [][NextHandler]_vars

\* One MockServer that serves, its clients, and one call of its Stop.
InitStop ==
    /\ InitManager
    /\ InitServing
    /\ srv = Serving
    /\ stopCall = NoStopCall

NextStop ==
    \/ \E c \in ConnIds, d \in 1..MaxDuration : SendRequest(c, d)
    \/ SecondPasses
    \/ StopEnter
    \/ StopReturn

SpecStop == InitStop /\ [][NextStop]_vars

(* ------------------------------- properties --------------------------- *)
\* The services that have an entry in serviceMap.
Registered == {n \in ServiceIds : serviceMap[n] # NoRt}

\* The services the global config read by goroutine t lists.
Listed(t) == RefNames(th[t].gIn.Services)

\* Goroutine t is where ReloadGlobalConfig has returned nil.
Reconciled(t) == th[t].pc = "g_ret" /\ th[t].gErr = ""

\* The services that were registered when goroutine t entered
\* ReloadGlobalConfig and that the config it read does not list.
Removed(t) == {n \in ServiceIds \ Listed(t) : th[t].before[n] # NoRt}

\* A mock list that the validation rules refuse: an empty path or method, a
\* method that is no HTTP method, a status code outside 100..599, or two mocks
\* with the same method (whatever its case) and path.
InvalidMocks(mocks) ==
    \E i \in 1..Len(mocks) :
        \/ mocks[i].Path = ""
        \/ mocks[i].Method = ""
        \/ ToUpper(mocks[i].Method) \notin {"GET", "POST", "PUT", "DELETE", "PATCH", "HEAD", "OPTIONS"}
        \/ mocks[i].StatusCode \notin 100..599
        \/ \E j \in 1..(i - 1) :
              /\ ToUpper(mocks[j].Method) = ToUpper(mocks[i].Method)
              /\ mocks[j].Path = mocks[i].Path

\* The files of one service, as ReloadService read them, are bad: the service
\* config is missing or malformed or its port is not in 1024..65535, or the
\* mock file is missing or malformed, or its list is empty or invalid.
BadServiceFiles(sf, mf) ==
    \/ sf.kind # "ok"
    \/ sf.Port \notin 1024..65535
    \/ mf.kind = "missing"
    \/ mf.kind = "ok" /\ (Len(mf.Mocks) = 0 \/ InvalidMocks(mf.Mocks))

\* The global config file is bad: missing or malformed, no services, an empty
\* service name, or a service name listed twice.
BadGlobalFile(f) ==
    \/ f.kind # "ok"
    \/ Len(f.Services) = 0
    \/ \E i \in 1..Len(f.Services) :
          \/ f.Services[i].Name = ""
          \/ \E j \in 1..(i - 1) : f.Services[j].Name = f.Services[i].Name

\* C1: a ReloadService whose service config or mock list cannot be loaded or
\* is refused by validation returns an error and changes nothing of the fleet:
\* no MockServer is stopped, built or started, and Servers, serviceMap and
\* portMap are what they were.
C1_FailedReloadLeavesFleet ==
    [][\A t \in Threads :
          (th[t].pc = "r_load" /\ th'[t].pc = "r_ret"
              /\ BadServiceFiles(th'[t].scIn, th'[t].mfIn))
          => (th'[t].rErr # "" /\ UNCHANGED fleetVars)]_vars

\* C1, its case: ReloadService has returned an error for an invalid mock
\* list while the service's server is registered and listening.
C1_Witness ==
    \E t \in Threads :
        /\ th[t].pc = "r_ret"
        /\ th[t].rErr # ""
        /\ th[t].mfIn.kind = "ok"
        /\ serviceMap[th[t].svc] # NoRt
        /\ rt[serviceMap[th[t].svc]].listening

\* C2 as stated: when ReloadGlobalConfig has returned nil, the registered
\* services are exactly the services its global config lists, each on the
\* usecase the config references for it.
C2_ExactlyListed ==
    \A t \in Threads :
        Reconciled(t) =>
            /\ Registered = Listed(t)
            /\ \A n \in Registered :
                  rt[serviceMap[n]].usecase = Referenced(th[t].gIn.Services)[n]

\* C2, amended: when ReloadGlobalConfig has returned nil, no service outside
\* its global config is registered; a listed service whose ReloadService
\* succeeded is registered with a new server on the referenced usecase; a
\* listed service whose ReloadService failed has the registration it had when
\* the call began, or none.
C2_ListedAndReloaded ==
    \A t \in Threads :
        Reconciled(t) =>
            /\ Registered \subseteq Listed(t)
            /\ \A n \in Listed(t) :
                  IF n \in th[t].failed
                  THEN serviceMap[n] = th[t].before[n]
                  ELSE /\ serviceMap[n] # NoRt
                       /\ serviceMap[n] # th[t].before[n]
                       /\ rt[serviceMap[n]].usecase = Referenced(th[t].gIn.Services)[n]

\* C2, its case: a reconciliation without failure that removed one service
\* and moved the other to another usecase.
C2_Witness ==
    \E t \in Threads :
        /\ Reconciled(t)
        /\ th[t].failed = {}
        /\ Removed(t) # {}
        /\ \E m \in Listed(t) :
              /\ th[t].before[m] # NoRt
              /\ rt[th[t].before[m]].usecase # rt[serviceMap[m]].usecase

\* C3: a ReloadGlobalConfig whose global config cannot be loaded or is refused
\* by validation returns an error, and neither it nor the handler's return
\* changes anything of the fleet.
C3_BadGlobalLeavesFleet ==
    [][\A t \in Threads :
          /\ (th[t].pc = "g_load" /\ th'[t].pc # "g_load" /\ BadGlobalFile(th'[t].gIn))
                => (th'[t].pc = "g_ret" /\ th'[t].gErr # "" /\ UNCHANGED fleetVars)
          /\ (th[t].pc = "g_ret" /\ th[t].gErr # "" /\ th'[t] # th[t])
                => UNCHANGED fleetVars]_vars

\* C3, its case: ReloadGlobalConfig has returned an error for a config that
\* lists a service twice, while a server is listening.
C3_Witness ==
    \E t \in Threads :
        /\ th[t].pc = "g_ret"
        /\ th[t].gErr # ""
        /\ th[t].gIn.kind = "ok"
        /\ Len(th[t].gIn.Services) = 2
        /\ \E r \in RtIds : rt[r].listening

\* C4: a ReloadGlobalConfig in which ReloadService failed for a listed service
\* still returns nil, and by then every other listed service is registered
\* with a new server whose Start was launched, the failing service has the
\* server it had, not stopped, and every service that was registered and is no
\* longer listed is stopped and has no entry.
C4_FailureIsolated ==
    \A t \in Threads :
        (th[t].pc = "g_ret" /\ th[t].failed # {}) =>
            /\ th[t].gErr = ""
            /\ \A n \in Listed(t) \ th[t].failed :
                  /\ serviceMap[n] # NoRt
                  /\ serviceMap[n] # th[t].before[n]
                  /\ rt[serviceMap[n]].startPc # "none"
                  /\ ~rt[serviceMap[n]].inShutdown
            /\ \A n \in th[t].failed :
                  /\ serviceMap[n] = th[t].before[n]
                  /\ th[t].before[n] # NoRt => ~rt[th[t].before[n]].inShutdown
            /\ \A n \in Removed(t) :
                  /\ rt[th[t].before[n]].inShutdown
                  /\ serviceMap[n] = NoRt

\* C4, its case: one listed service failed and keeps its listening server,
\* the other listed service was reloaded.
C4_Witness ==
    \E t \in Threads :
        /\ th[t].pc = "g_ret"
        /\ \E n \in th[t].failed :
              th[t].before[n] # NoRt /\ rt[th[t].before[n]].listening
        /\ \E m \in Listed(t) \ th[t].failed :
              th[t].before[m] # NoRt /\ serviceMap[m] # th[t].before[m]

C6_ReferencedUsecase ==
    \A t \in Threads :
        (th[t].pc = "r_load" /\ th[t].caller = "h" /\ th[t].ev.ConfigType = "service"
            /\ lastGlobal[th[t].svc] # "")
        => th[t].usecase = lastGlobal[th[t].svc]

\* The arrival numbers of the events of a path.
ArrivalsOf(path) == {k \in 1..Len(arrivals) : arrivals[k].event.Path = path}

\* The events of a path form one burst: each arrived less than the debounce
\* window after the one before it.
OneBurst(path) ==
    /\ ArrivalsOf(path) # {}
    /\ \A k \in ArrivalsOf(path) :
          \A j \in ArrivalsOf(path) :
              (j < k /\ \A i \in ArrivalsOf(path) : ~(j < i /\ i < k))
                  => arrivals[k].at - arrivals[j].at < DebounceDelay

\* C7 as stated: the events of a path that form one burst get exactly one
\* callback in total: never more than one, and one once no timer is left.
C7_ExactlyOnce ==
    \A path \in DebouncePaths :
        OneBurst(path) =>
            /\ Cardinality({c \in calls : c.event.Path = path}) <= 1
            /\ (\A tm \in timers : tm.event.Path # path)
                  => Cardinality({c \in calls : c.event.Path = path}) = 1

\* C8 as stated: the callback is never invoked for a path while the latest
\* event of that path is younger than the debounce window.
C8_NeverWhileYoung == \A c \in calls : c.since >= DebounceDelay

\* Arrival k is followed by an event of the same path.
Superseded(k) ==
    /\ Len(arrivals) >= k
    /\ \E j \in (k + 1)..Len(arrivals) : arrivals[j].event.Path = arrivals[k].event.Path

\* The callback was invoked with the event of arrival k.
Delivered(k) ==
    /\ Len(arrivals) >= k
    /\ \E c \in calls : c.id = k /\ c.event = arrivals[k].event

\* C9: every event is followed by a newer event of its path or by a callback
\* that carries it, so the last event of a path always reaches the callback,
\* with its path, classification and deleted flag.
C9_LastEventDelivered ==
    \A k \in 1..MaxEvents : (Len(arrivals) >= k) ~> (Delivered(k) \/ Superseded(k))

\* C9, its case: the last event of a path went to a timer, and the timer gave
\* it to the callback.
C9_Witness ==
    \E k \in 1..Len(arrivals) :
        /\ ~Superseded(k)
        /\ \E c \in calls : c.id = k /\ c.byTimer /\ c.event = arrivals[k].event

\* C10: no step of a handler that was given a deleted event changes anything
\* of the fleet, and such a handler makes no call.
C10_DeletedIgnored ==
    [][\A t \in Threads :
          (th'[t] # th[t] /\ (th[t].ev.IsDeleted \/ th'[t].ev.IsDeleted))
          => /\ UNCHANGED fleetVars
             /\ th[t].pc = "idle" => th'[t].pc = "h_ret"]_vars

\* C10, its case: the handler is returning from a deleted event for the
\* global config while a server is listening.
C10_Witness ==
    \E t \in Threads :
        /\ th[t].pc = "h_ret"
        /\ th[t].ev.IsDeleted
        /\ th[t].ev.ConfigType = "global"
        /\ \E r \in RtIds : rt[r].listening

\* A request has been served.
Served == request # NoRequest

\* The match of method and path as the specification words it: the method
\* without regard to case, the path exactly.
SameEndpoint(mock, r) == r.Path = mock.Path /\ ToUpper(r.Method) = ToUpper(mock.Method)

\* The request body is a JSON object of which the mock's expected body, if it
\* has one, is a subset.
BodyAccepted(mock, r) ==
    mock.Body # Nil => (r.Body[1] = "obj" /\ matchesMockBody(r.Body[2], mock.Body[2]))

\* C11 as stated: for a validated mock list, a request for which some entry
\* has its method and path, with the entry's expected body (if any) a subset
\* of the request body, is answered with that entry's status, headers and
\* body; a request for which no entry has its method and path is answered 404.
C11_ConfiguredResponse ==
    Served =>
        /\ \A i \in 1..Len(handler.Mocks) :
              (SameEndpoint(handler.Mocks[i], request) /\ BodyAccepted(handler.Mocks[i], request))
              => /\ response.StatusCode = handler.Mocks[i].StatusCode
                 /\ response.Headers =
                        {<<CanonicalHeaderKey(h[1]), h[2]>> : h \in handler.Mocks[i].Headers}
                 /\ response.Body = IF handler.Mocks[i].RespBody = Nil THEN <<"text", "">>
                                    ELSE <<"json", handler.Mocks[i].RespBody>>
        /\ (\A i \in 1..Len(handler.Mocks) : ~SameEndpoint(handler.Mocks[i], request))
              => response.StatusCode = 404

\* C12 as stated: a mock without expected body is the one found for a request
\* exactly when its path equals the request's path and its method equals the
\* request's method without regard to case.
C12_MethodCaseInsensitive ==
    Served =>
        \A i \in 1..Len(handler.Mocks) :
            handler.Mocks[i].Body = Nil =>
                (response.found = i <=> SameEndpoint(handler.Mocks[i], request))

\* The subset relation of C13: every key of expected is in received, with
\* either two objects that are in the relation again, or an expected value
\* that is no object and an equal received value.
RECURSIVE IsSubset(_, _)
IsSubset(received, expected) ==
    /\ DOMAIN expected \subseteq DOMAIN received
    /\ \A key \in DOMAIN expected :
          \/ /\ expected[key][1] = "obj"
             /\ received[key][1] = "obj"
             /\ IsSubset(received[key][2], expected[key][2])
          \/ /\ expected[key][1] # "obj"
             /\ received[key] = expected[key]

\* C13: a mock with an expected body, whose method and path are the
\* request's, is found for a request with a JSON object as body exactly when
\* the expected body is a subset of the request body, at every nesting level.
C13_SubsetCheck ==
    Served =>
        \A i \in 1..Len(handler.Mocks) :
            (MatchesEndpoint(handler.Mocks[i], request) /\ handler.Mocks[i].Body # Nil
                /\ request.Body[1] = "obj")
            => (response.found = i <=> IsSubset(request.Body[2], handler.Mocks[i].Body[2]))

\* C13, its case: the expected body {a:{x:1}} was matched by the request body
\* {a:{x:1,y:2}}.
C13_Witness ==
    /\ response.found # 0
    /\ handler.Mocks[response.found].Body = Obj([a |-> Obj([x |-> Val("1")])])
    /\ request.Body = Obj([a |-> Obj([x |-> Val("1"), y |-> Val("2")])])

\* C14 as stated: the delay is 0 when delay is disabled; fixed when enabled
\* and fixed > 0; otherwise a value of min..max when 0 <= min <= max; and 0
\* otherwise.
C14_DelayAsConfigured ==
    (Served /\ response.found # 0) =>
        LET d == handler.DelayConfig
        IN  IF ~d.Enabled THEN response.slept = 0
            ELSE IF d.Fixed > 0 THEN response.slept = d.Fixed
            ELSE IF 0 <= d.Min /\ d.Min <= d.Max
            THEN d.Min <= response.slept /\ response.slept <= d.Max
            ELSE response.slept = 0

\* The services listed by the global config that main loaded.
StartupListed == RefNames(th["main"].gIn.Services)

\* C15: at start-up a listed service whose files are bad is skipped and gets
\* no server, a listed service whose files pass gets a server in the three
\* views; main aborts after the loop only with no server at all, and
\* otherwise launches the Start of every server.
C15_StartupSkipsBadServices ==
    [][(th["main"].pc = "m_loop" /\ th'["main"] # th["main"]) =>
          IF th'["main"].pc = "m_loop"
          THEN LET name == th["main"].gIn.Services[th["main"].idx].Name
               IN  IF BadServiceFiles(th'["main"].scIn, th'["main"].mfIn)
                   THEN /\ UNCHANGED fleetVars
                        /\ serviceMap'[name] = NoRt
                   ELSE /\ serviceMap'[name] # NoRt
                        /\ serviceMap[name] = NoRt
                        /\ name \in ServerNames(rt', Servers')
                        /\ rt'[serviceMap'[name]].Port = th'["main"].scIn.Port
                        /\ rt'[serviceMap'[name]].Port \in portMap'
                        /\ \A n \in ServiceIds \ {name} : serviceMap'[n] = serviceMap[n]
          ELSE IF th'["main"].pc = "m_fatal"
          THEN Len(Servers) = 0 /\ UNCHANGED fleetVars
          ELSE /\ th'["main"].pc = "m_wait"
               /\ Len(Servers) # 0
               /\ {n \in ServiceIds : serviceMap'[n] # NoRt} = StartupListed \ th["main"].failed
               /\ \A n \in StartupListed \ th["main"].failed :
                     rt'[serviceMap'[n]].startPc = "spawned"]_vars

\* C15, its case: main waits for its signal with two services listed, one of
\* them skipped and the other registered with its Start launched, and no
\* event handled yet.
C15_Witness ==
    /\ th["main"].pc = "m_wait"
    /\ th["cb"] = IdleThread
    /\ \A n \in ServiceIds : lastGlobal[n] # ""
    /\ \E n \in ServiceIds :
          /\ serviceMap[n] # NoRt
          /\ rt[serviceMap[n]].startPc = "spawned"
          /\ \A m \in ServiceIds \ {n} : serviceMap[m] = NoRt
    /\ Cardinality({r \in RtIds : rt[r] # NoServer}) = 1

\* C16 as stated: once the watcher's Stop has returned, the callback is not
\* invoked any more.
C16_NoCallbackAfterStop == [][done => calls' = calls]_vars

\* C17 as stated: when Stop has returned, with or without an error, the
\* listener is closed and the server has no open connection.
C17_ClosedAfterStop ==
    stopCall.pc = "returned" => (~srv.listening /\ \A c \in ConnIds : srv.conns[c] = Closed)

\* C19 as stated: with the mutex free, the names of serviceMap are the names
\* of the Servers list, each once and with the mapped server as list element,
\* and the ports of portMap are the ports of the servers of serviceMap.
C19_MapsConsistent ==
    mutex = NoThread =>
        /\ {n \in ServiceIds : serviceMap[n] # NoRt} = ServerNames(rt, Servers)
        /\ \A i \in 1..Len(Servers) : serviceMap[rt[Servers[i]].ServiceName] = Servers[i]
        /\ \A i \in 1..Len(Servers) : \A j \in 1..Len(Servers) :
              Servers[i] = Servers[j] => i = j
        /\ portMap = {rt[serviceMap[n]].Port : n \in {m \in ServiceIds : serviceMap[m] # NoRt}}

\* Every callback has returned.
Quiescent == \A t \in Threads \ {"main"} : th[t].pc \in {"idle", "returned"}

\* C18 as stated: once every call has returned, a server that listens or
\* whose Start is launched is the one serviceMap has for its service, and
\* every server that is not has had Stop called.
C18_NoLeakedListener ==
    Quiescent =>
        \A r \in RtIds :
            (rt[r] # NoServer /\ serviceMap[rt[r].ServiceName] # r)
            => (rt[r].inShutdown /\ ~rt[r].listening)

\* C20 as stated: no goroutine reads the Servers list, as ReloadGlobalConfig
\* does for currentServices, while another goroutine holds the mutex.
C20_NoAccessBesideHolder ==
    [][\A t \in Threads :
          (th[t].pc = "g_load" /\ th'[t].pc = "g_loop") => mutex \in {NoThread, t}]_vars

\* Goroutine t calls the Stop of a server in this step: ReloadService at line
\* 73, ReloadGlobalConfig at line 146, StopAll at line 129.
CallsStop(t) ==
    \/ th[t].pc = "r_load" /\ th'[t].pc = "r_add" /\ serviceMap[th[t].svc] # NoRt
    \/ th[t].pc = "g_remove" /\ th'[t].pc = "g_delete"
    \/ th[t].pc = "sa_loop" /\ th'[t].pc = "sa_loop" /\ th'[t].idx # th[t].idx

\* C21 as stated: no operation of the manager calls the Stop of a server
\* while it holds the mutex.  (A Start runs on a goroutine of its own, which
\* never takes the mutex.)
C21_NoStopUnderMutex ==
    [][\A t \in Threads : CallsStop(t) => mutex # t]_vars

\* Goroutine t calls AddServer in this step, for a server of service name:
\* main at line 144, ReloadService at line 85.
CallsAddServer(t, name) ==
    \/ /\ th[t].pc = "m_loop" /\ th'[t].pc = "m_loop"
       /\ th'[t].failed = th[t].failed
       /\ th[t].idx <= Len(th[t].gIn.Services)
       /\ name = th[t].gIn.Services[th[t].idx].Name
    \/ /\ th[t].pc = "r_load" /\ th'[t].pc = "r_ret" /\ th'[t].rErr = ""
       /\ name = th[t].svc

\* The servers of a list that are not of service name, in the list's order.
OthersOf(rts, list, name) ==
    SelectSeq([i \in 1..Len(list) |-> rts[list[i]]], LAMBDA s : s.ServiceName # name)

\* C22 as stated: after AddServer(r) the service of r is registered once, as
\* r, in serviceMap, in the Servers list and with its port in portMap, r's
\* listener is not started by it, and every other service has the entries it
\* had: its server in serviceMap, with the listener state it had, its place
\* among the others in the list, and its port in portMap.
C22_AddServerFrame ==
    [][\A t \in Threads : \A name \in ServiceIds :
          CallsAddServer(t, name) =>
              /\ serviceMap'[name] # NoRt
              /\ rt'[serviceMap'[name]].ServiceName = name
              /\ ~rt'[serviceMap'[name]].listening
              /\ Cardinality({i \in 1..Len(Servers') : rt'[Servers'[i]].ServiceName = name}) = 1
              /\ \E i \in 1..Len(Servers') : Servers'[i] = serviceMap'[name]
              /\ rt'[serviceMap'[name]].Port \in portMap'
              /\ OthersOf(rt', Servers', name) = OthersOf(rt, Servers, name)
              /\ \A n \in ServiceIds \ {name} :
                    IF serviceMap[n] = NoRt THEN serviceMap'[n] = NoRt
                    ELSE /\ serviceMap'[n] # NoRt
                         /\ rt'[serviceMap'[n]] = rt[serviceMap[n]]
                         /\ rt[serviceMap[n]].Port \in portMap
                               => rt[serviceMap[n]].Port \in portMap']_vars

\* Two servers of one service listen.
BothAccepting ==
    \E r \in RtIds, q \in RtIds :
        /\ r # q
        /\ rt[r].ServiceName = rt[q].ServiceName
        /\ rt[r].listening /\ rt[q].listening

\* C23 as stated: in a ReloadService that passes its loads, the server that
\* the service has when the replacement is registered has had its Stop
\* return; the replacement is in the maps when its Start is launched, and not
\* listening before; no two servers of a service ever listen at a time; and
\* where ReloadService has returned nil the maps hold a server built from
\* the files it read.
C23_StopThenRegisterThenStart ==
    /\ [](~BothAccepting)
    /\ [](\A t \in Threads :
            (th[t].pc = "r_ret" /\ th[t].rErr = "") =>
                /\ serviceMap[th[t].svc] # NoRt
                /\ rt[serviceMap[th[t].svc]].Port = th[t].scIn.Port
                /\ rt[serviceMap[th[t].svc]].Mocks = th[t].mfIn.Mocks
                /\ rt[serviceMap[th[t].svc]].usecase = th[t].usecase)
    /\ [][\A t \in Threads :
            /\ (th[t].pc = "r_add" /\ th'[t].pc = "a_add") =>
                  \/ serviceMap[th[t].svc] = NoRt
                  \/ rt[serviceMap[th[t].svc]].inShutdown
            /\ (th[t].pc = "a_add" /\ th'[t].pc = "r_ret") =>
                  /\ rt[th[t].created].startPc = "none"
                  /\ ~rt[th[t].created].listening
                  /\ serviceMap'[th[t].svc] # NoRt
                  /\ rt'[serviceMap'[th[t].svc]].startPc = "spawned"]_vars

\* The Start of server r has returned the error of a bind that failed, which
\* its goroutine logs (server.go:113-115, reloader.go:90-92).
BindFailed(r) == rt[r].startPc = "done" /\ rt[r].startErr = "bind"

\* C24 as stated: where the server that serviceMap has for a service has
\* failed to bind, no server of that service listens; a server whose Stop was
\* called does not listen again; and no two servers are bound to one port.
C24_BindFailureLeavesServiceDown ==
    /\ \A r \in RtIds :
          (BindFailed(r) /\ serviceMap[rt[r].ServiceName] = r) =>
              \A q \in RtIds : rt[q].ServiceName = rt[r].ServiceName => ~rt[q].listening
    /\ \A r \in RtIds : rt[r].inShutdown => ~rt[r].listening
    /\ \A r \in RtIds, q \in RtIds :
          (r # q /\ rt[r].listening /\ rt[q].listening) => rt[r].Port # rt[q].Port

\* C25: an AddServer for a server whose port another registered service has
\* registers it all the same: after it both services have their servers in
\* serviceMap and in the Servers list and the port is in portMap; and at no
\* time do two servers hold one port.
C25_PortCollisionNotFatal ==
    /\ [](\A r \in RtIds, q \in RtIds :
            (r # q /\ rt[r].listening /\ rt[q].listening) => rt[r].Port # rt[q].Port)
    /\ [][\A t \in Threads : \A name \in ServiceIds : \A n \in ServiceIds \ {name} :
            (/\ CallsAddServer(t, name)
             /\ serviceMap[n] # NoRt
             /\ rt[serviceMap[n]].Port = th'[t].scIn.Port)
            => /\ serviceMap'[name] # NoRt
               /\ rt'[serviceMap'[name]].Port = th'[t].scIn.Port
               /\ serviceMap'[n] # NoRt
               /\ rt'[serviceMap'[n]] = rt[serviceMap[n]]
               /\ \E i \in 1..Len(Servers') : Servers'[i] = serviceMap'[name]
               /\ \E i \in 1..Len(Servers') : Servers'[i] = serviceMap'[n]
               /\ th'[t].scIn.Port \in portMap']_vars

\* C25, its case: two services are registered with one port, both in the
\* list and the port in portMap; one server holds the port and the Start of
\* the other has failed to bind.
C25_Witness ==
    \E r \in RtIds, q \in RtIds :
        /\ serviceMap["A"] = r /\ serviceMap["B"] = q
        /\ rt[r].Port = rt[q].Port
        /\ rt[r].Port \in portMap
        /\ Len(Servers) = 2
        /\ \/ rt[r].listening /\ BindFailed(q)
           \/ rt[q].listening /\ BindFailed(r)

\* C26 as stated: an event's path is classified global exactly when it is
\* config.yaml or config.yml; service exactly when it is one of these two
\* names below one directory; mock exactly when it is a .json file below
\* <service>/usecases/<usecase>; unknown otherwise; the service of a service
\* or mock path is its first component; and the usecase the hot reloader
\* reloads with for a mock path is its third component.
C26_Classification ==
    LET ev == th["cb"].ev
        p == ev.Path
        isGlobal == Len(p) = 1 /\ p[1] \in {"config.yaml", "config.yml"}
        isService == Len(p) = 2 /\ p[2] \in {"config.yaml", "config.yml"}
        isMock == Len(p) = 4 /\ p[2] = "usecases" /\ p[4] = "all.json"
    IN  ev # NoEvent =>
            /\ ev.ConfigType = "global" <=> isGlobal
            /\ ev.ConfigType = "service" <=> isService
            /\ ev.ConfigType = "mock" <=> isMock
            /\ ev.ConfigType = "unknown" <=> ~(isGlobal \/ isService \/ isMock)
            /\ ev.ConfigType \in {"service", "mock"} => ev.ServiceID = p[1]
            /\ (ev.ConfigType = "mock" /\ th["cb"].pc = "r_load") => th["cb"].usecase = p[3]

\* C27 as stated: while the hot reloader's callback runs for one path, the
\* watcher can take the event of any other path through handleFileChange and
\* debounceEvent to the callback: processEvents, whose goroutine makes the
\* call of line 330 for a path without a recent event, is free to make it.
C27_CallbacksIndependent ==
    \A path \in WatchPaths :
        (Watching /\ th["cb"].pc # "idle" /\ th["cb"].ev.Path # path)
        => ENABLED HandleEvent("cb", path, FALSE)

\* C28: a server whose Stop has been called does not listen, whenever its
\* Start runs; a server listens exactly while its one Start goroutine serves,
\* and not before a Start is launched; a Start is launched only for a server
\* that had none, so that no server has two listeners; and a Stop starts no
\* listener and leaves every stopped server stopped.
C28_LifecycleForward ==
    /\ [](\A r \in RtIds :
            /\ rt[r].inShutdown => ~rt[r].listening
            /\ rt[r].listening <=> rt[r].startPc = "serving"
            /\ rt[r].startPc = "none" => rt[r].startErr = "")
    /\ [][/\ (th["main"].pc = "m_loop" /\ th'["main"].pc = "m_wait") =>
                \A i \in 1..Len(Servers) : rt[Servers[i]].startPc = "none"
          /\ \A t \in Threads :
                /\ (th[t].pc = "a_add" /\ th'[t].pc = "r_ret") =>
                      rt[th[t].created].startPc = "none"
                /\ CallsStop(t) =>
                      \A r \in RtIds :
                          /\ rt'[r].listening => rt[r].listening
                          /\ rt[r].inShutdown => rt'[r].inShutdown]_vars

\* C28, its case: a server was stopped and its Start has returned
\* ErrServerClosed, while the server that replaced it listens.
C28_Witness ==
    \E r \in RtIds, q \in RtIds :
        /\ rt[r].inShutdown /\ ~rt[r].listening
        /\ rt[r].startPc = "done" /\ rt[r].startErr = "ErrServerClosed"
        /\ rt[q].ServiceName = rt[r].ServiceName
        /\ rt[q].listening /\ ~rt[q].inShutdown

C30_ActiveUsecase ==
    (Watching /\ \A t \in Threads \ {"main"} : th[t].pc = "idle") =>
        \A n \in ServiceIds :
            (serviceMap[n] # NoRt /\ ~rt[serviceMap[n]].inShutdown /\ lastGlobal[n] # "")
            => rt[serviceMap[n]].usecase = lastGlobal[n]

C32_PortHandOver ==
    \A t \in Threads : \A a \in ServiceIds, b \in ServiceIds :
        (/\ Reconciled(t)
         /\ a \in Removed(t)
         /\ b \in Listed(t) \ th[t].failed
         /\ th[t].before[b] = NoRt
         /\ serviceMap[b] # NoRt
         /\ rt[serviceMap[b]].Port = rt[th[t].before[a]].Port
         /\ rt[serviceMap[b]].startPc \in {"serving", "done"})
        => rt[serviceMap[b]].listening

\* C33 as stated: where ReloadService has returned nil and the Start it
\* launched has run, the server that serviceMap has for the service listens;
\* and no server whose Start failed to bind is the one serviceMap has for its
\* service.
C33_RegisteredImpliesListening ==
    /\ \A t \in Threads :
          (/\ th[t].pc = "r_ret" /\ th[t].rErr = ""
           /\ serviceMap[th[t].svc] # NoRt
           /\ rt[serviceMap[th[t].svc]].startPc \in {"serving", "done"})
          => rt[serviceMap[th[t].svc]].listening
    /\ \A r \in RtIds : BindFailed(r) => serviceMap[rt[r].ServiceName] # r

\* Goroutine t is at a call that takes the mutex: AddServer and StartAll in
\* main, StopAll, GetServerByService in ReloadService, AddServer, and in the
\* second loop of ReloadGlobalConfig GetServerByService and the Lock of line
\* 152.
WantsMutex(t) ==
    th[t].pc \in {"m_loop", "sa_lock", "r_load", "r_add", "g_remove", "g_delete"}

\* C34: a goroutine that holds the mutex is never at a call that takes it;
\* the mutex is taken only when it is free; the mutex is free again and
\* again, so that every goroutine that holds it releases it; and no goroutine
\* stays for ever at a call that takes it.
C34_DeadlockFree ==
    /\ [](\A t \in Threads : mutex = t => ~WantsMutex(t))
    /\ [][\A t \in Threads : (mutex' = t /\ mutex # t) => mutex = NoThread]_vars
    /\ []<>(mutex = NoThread)
    /\ \A t \in Threads : []<>(~WantsMutex(t))

\* C34, its case: a ReloadService waits at AddServer for the mutex, which
\* StopAll holds while it waits in the Stop of a server whose request never
\* completes.
C34_Witness ==
    /\ th["cb"].pc = "r_add"
    /\ mutex = "main"
    /\ th["main"].pc = "sa_stop"
    /\ th["main"].drain = Never

\* C35: main is again and again outside StopAll, so that the StopAll it calls
\* returns; every goroutine of a callback is again and again outside it, so
\* that the ReloadService and the ReloadGlobalConfig it calls return,
\* whatever the requests in flight on the servers that are stopped; no Stop
\* waits once the 5 seconds of its context are over (StopAll has one context
\* for all its servers); and when StopAll returns, Stop has been called on
\* every server of the Servers list.
C35_StopsReturn ==
    /\ [](\A t \in Threads :
            (InStop(t) /\ th[t].ctx >= ShutdownTimeout) => ~ENABLED StopSecondPasses)
    /\ []<>(th["main"].pc \notin {"sa_lock", "sa_loop", "sa_stop"})
    /\ \A t \in Threads \ {"main"} : []<>(th[t].pc = "idle")
    /\ [][\A t \in Threads :
            (th[t].pc = "sa_loop" /\ th'[t].pc = "sa_ret") =>
                \A i \in 1..Len(Servers) : rt[Servers[i]].inShutdown]_vars

\* C35, its case: StopAll has returned after the Stop of a server returned
\* the error of its context, and every server of the list is stopped.
C35_Witness ==
    /\ th["main"].pc = "sa_ret"
    /\ th["main"].failed # {}
    /\ th["main"].ctx = ShutdownTimeout
    /\ Len(Servers) = 2
    /\ \A i \in 1..Len(Servers) : rt[Servers[i]].inShutdown

====
